---- MODULE Spec2Model ----
(***************************************************************************)
(* Model of the inquiry-email workflow: the fuzzy item/quantity extractor  *)
(* (src/src/lightweight_offline/email_parser.py and                        *)
(* src/src/utils/email_parser_helpers.py) and the deterministic quote      *)
(* calculator (src/src/quoting.py).                                        *)
(*                                                                         *)
(* Conventions.                                                            *)
(*  - A Python Optional value is a sequence of length 0 (None) or 1.       *)
(*  - A text is a sequence of one-character strings.                       *)
(*  - A number that Python holds as a float is an exact rational <<n, d>>  *)
(*    with d > 0 and gcd(n, d) = 1; round(x, 2) rounds half to even.       *)
(***************************************************************************)
EXTENDS Integers, Sequences, FiniteSets, TLC

VARIABLES
    price_list,      \* QuoteGenerator.price_list / EmailParser.price_list
    discount_rules,  \* QuoteGenerator.discount_rules
    tax_rate,        \* QuoteGenerator.tax_rate
    parsed_event,    \* the ParsedEvent the caller holds
    other_event,     \* a second ParsedEvent the caller holds
    quotes,          \* per event, the Quotes generate_quote has returned so far
    bulk_call,       \* the last call of _get_bulk_discount: None or <<quantity, rate>>
    quantity_call,   \* the last call of parse_quantity: None or <<text, result>>
    email_content,   \* the text of the message in the inbox, None when there is none
    fuzzy,           \* the scorer in use: text |-> [product, score] of extractOne
    cleaned_body,    \* the body parse_email handed to extract_items, None before
    config,          \* the price list and discount rules handed to the constructors
    raised,          \* per constructor, the exception that left it, None when none did
    inbox,           \* samples/inbox: file name |-> content
    events_dir,      \* data/events: email id |-> Some(event), None for a file cut short
    outbox_dir,      \* data/outbox: email id |-> Some(draft), None for a file cut short
    quotes_dir,      \* data/quotes: email id |-> Some(quote), None for a file cut short
    timeline,        \* data/timeline/activity.jsonl: the entries logged so far
    pc,              \* where main() is: the pipeline, the run, the stage, the files left
    calls,           \* the calls main() made for each message in this run, in order
    log_lock         \* logging.log_lock: None when free, else the thread that holds it

vars == <<price_list, discount_rules, tax_rate, parsed_event, other_event,
          quotes, bulk_call, quantity_call, email_content, fuzzy, cleaned_body,
          config, raised, inbox, events_dir, outbox_dir, quotes_dir, timeline, pc, calls,
          log_lock>>

\* The objects, the calls and the message of the core modules.
coreVars == <<price_list, discount_rules, tax_rate, parsed_event, other_event, quotes,
              bulk_call, quantity_call, email_content, fuzzy, cleaned_body, config, raised>>

\* The files and the position of a pipeline run, and the lock of the log.
pipelineVars ==
    <<inbox, events_dir, outbox_dir, quotes_dir, timeline, pc, calls, log_lock>>

----------------------------------------------------------------------------
(* Optional values *)

None == <<>>

Some(v) == <<v>>

\* Python truthiness of an Optional[str]: None and "" are falsy.
TruthyStr(o) == o # None /\ o[1] # ""

\* Python truthiness of an Optional[int]: None and 0 are falsy.
TruthyInt(o) == o # None /\ o[1] # 0

----------------------------------------------------------------------------
(* Exact rational arithmetic standing for Python float arithmetic *)

Abs(n) == IF n < 0 THEN -n ELSE n

RECURSIVE Gcd(_, _)
Gcd(a, b) == IF b = 0 THEN a ELSE Gcd(b, a % b)

Rat(n, d) ==
    LET g == Gcd(Abs(n), d)
    IN  IF n = 0 THEN <<0, 1>> ELSE <<n \div g, d \div g>>

RInt(n) == <<n, 1>>

RAdd(x, y) ==
    LET g == Gcd(x[2], y[2])
    IN  Rat(x[1] * (y[2] \div g) + y[1] * (x[2] \div g), x[2] * (y[2] \div g))

RNeg(x) == <<-x[1], x[2]>>

RSub(x, y) == RAdd(x, RNeg(y))

RMul(x, y) ==
    LET a == Rat(x[1], y[2])
        b == Rat(y[1], x[2])
    IN  Rat(a[1] * b[1], a[2] * b[2])

\* p / 100.0
Percent(p) == Rat(p, 100)

RECURSIVE RSum(_)
RSum(s) == IF s = <<>> THEN RInt(0) ELSE RAdd(Head(s), RSum(Tail(s)))

\* round(x, 2): the nearest multiple of 1/100, a tie going to the even one.
Round2(x) ==
    LET g == Gcd(100, x[2])
        n == x[1] * (100 \div g)
        d == x[2] \div g
        q == n \div d
        r == n % d
        c == IF 2 * r < d THEN q
             ELSE IF 2 * r > d THEN q + 1
             ELSE IF q % 2 = 0 THEN q ELSE q + 1
    IN  Rat(c, 100)

----------------------------------------------------------------------------
(* sorted(..., reverse=True): a stable sort, descending by key *)

\* Tuples of integers of equal length, compared as Python compares tuples.
RECURSIVE KeyLess(_, _)
KeyLess(a, b) ==
    IF a = <<>> THEN FALSE
    ELSE IF Head(a) < Head(b) THEN TRUE
    ELSE IF Head(a) > Head(b) THEN FALSE
    ELSE KeyLess(Tail(a), Tail(b))

\* acc is sorted; i goes before the first element whose key is smaller, so
\* elements with equal keys keep the order in which they arrived.
RECURSIVE InsertDesc(_, _, _)
InsertDesc(acc, i, keys) ==
    IF acc = <<>> THEN <<i>>
    ELSE IF KeyLess(keys[Head(acc)], keys[i]) THEN <<i>> \o acc
    ELSE <<Head(acc)>> \o InsertDesc(Tail(acc), i, keys)

RECURSIVE SortFrom(_, _, _)
SortFrom(acc, i, keys) ==
    IF i > Len(keys) THEN acc
    ELSE SortFrom(InsertDesc(acc, i, keys), i + 1, keys)

\* The indices of keys in sorted order.
SortedDescending(keys) == SortFrom(<<>>, 1, keys)

----------------------------------------------------------------------------
(* QuoteGenerator, src/src/quoting.py *)

HasKey(d, k) == k \in DOMAIN d

\* dict.get(k, default)
Get(d, k, default) == IF HasKey(d, k) THEN d[k] ELSE default

\* An exception leaving the call.
Raised(e) == [raised |-> e]

IsRaised(v) == HasKey(v, "raised")

PendingReason == "One or more items could not be identified or are missing quantities."

\* The fields __init__ sets, or the ValueError it raises.
QuoteGeneratorInit(pl, dr) ==
    IF DOMAIN pl = {} \/ DOMAIN dr = {}
    THEN Raised("ValueError")
    ELSE [price_list |-> pl, discount_rules |-> dr,
          tax_rate |-> Percent(Get(dr, "tax_rate_percent", 0))]

\* The fields EmailParser.__init__ sets, or the ValueError it raises.
EmailParserInit(pl) ==
    IF DOMAIN pl = {}
    THEN Raised("ValueError")
    ELSE [price_list |-> pl, product_names |-> DOMAIN pl]

_is_quotable(items) ==
    IF items = <<>> THEN FALSE
    ELSE \A i \in 1..Len(items) :
            TruthyStr(items[i].product_name) /\ TruthyInt(items[i].quantity)

RECURSIVE FirstQualifying(_, _)
FirstQualifying(rules, quantity) ==
    IF rules = <<>> THEN 0
    ELSE IF quantity >= Head(rules).min_quantity THEN Head(rules).discount_percent
    ELSE FirstQualifying(Tail(rules), quantity)

\* Variant: the rules are scanned in the order they are written, unsorted.
_get_bulk_discount_unsorted(quantity) ==
    FirstQualifying(discount_rules["bulk_discount"], quantity)

_get_bulk_discount(quantity) ==
    LET rules == discount_rules["bulk_discount"]
        order == SortedDescending([i \in 1..Len(rules) |-> <<rules[i].min_quantity>>])
        sorted_rules == [i \in 1..Len(rules) |-> rules[order[i]]]
    IN  FirstQualifying(sorted_rules, quantity)

\* Variant: the category discount is taken on the subtotal, so the two rates add.
LineItemAdditive(item, product_info) ==
    LET quantity == item.quantity[1]
        subtotal == RMul(product_info.price, RInt(quantity))
        bulk_discount_amount == RMul(subtotal, Percent(_get_bulk_discount(quantity)))
        category_discount_amount ==
            RMul(subtotal,
                 Percent(Get(discount_rules["category_discount"], product_info.category, 0)))
        total_discount == RAdd(bulk_discount_amount, category_discount_amount)
    IN  [product_name |-> item.product_name[1],
         quantity |-> quantity,
         unit_price |-> product_info.price,
         subtotal |-> subtotal,
         total_discount_applied |-> total_discount,
         final_price |-> RSub(subtotal, total_discount)]

\* One pass of the loop body of _calculate_line_items for an item the
\* price list knows.
LineItem(item, product_info) ==
    LET product_name == item.product_name[1]
        quantity == item.quantity[1]
        unit_price == product_info.price
        category == product_info.category
        subtotal == RMul(unit_price, RInt(quantity))
        bulk_discount_percent == _get_bulk_discount(quantity)
        category_discount_percent == Get(discount_rules["category_discount"], category, 0)
        bulk_discount_amount == RMul(subtotal, Percent(bulk_discount_percent))
        post_bulk_total == RSub(subtotal, bulk_discount_amount)
        category_discount_amount == RMul(post_bulk_total, Percent(category_discount_percent))
        total_discount == RAdd(bulk_discount_amount, category_discount_amount)
        final_price == RSub(subtotal, total_discount)
    IN  [product_name |-> product_name,
         quantity |-> quantity,
         unit_price |-> unit_price,
         subtotal |-> subtotal,
         total_discount_applied |-> total_discount,
         final_price |-> final_price]

\* The list returned (raised = None), or the KeyError of a rules structure
\* that lacks "bulk_discount" or "category_discount", raised at the first
\* item the price list knows.
RECURSIVE _calculate_line_items(_)
_calculate_line_items(items) ==
    IF items = <<>> THEN [raised |-> None, value |-> <<>>]
    ELSE LET item == Head(items)
             known == HasKey(price_list, item.product_name[1])
         IN  IF ~known THEN _calculate_line_items(Tail(items))
             ELSE IF ~HasKey(discount_rules, "bulk_discount")
                     \/ ~HasKey(discount_rules, "category_discount")
             THEN [raised |-> Some("KeyError"), value |-> <<>>]
             ELSE LET rest == _calculate_line_items(Tail(items))
                      line == LineItem(item, price_list[item.product_name[1]])
                  IN  [rest EXCEPT !.value = IF rest.raised = None THEN <<line>> \o @ ELSE @]

\* Variant: the grand total is the sum of the rounded net total and rounded tax.
_calculate_summary_of_rounded(line_items) ==
    LET grand_subtotal == RSum([i \in 1..Len(line_items) |-> line_items[i].subtotal])
        total_discount ==
            RSum([i \in 1..Len(line_items) |-> line_items[i].total_discount_applied])
        net_total == RSub(grand_subtotal, total_discount)
        tax_amount == RMul(net_total, tax_rate)
    IN  [grand_subtotal |-> Round2(grand_subtotal),
         total_discount |-> Round2(total_discount),
         net_total_before_tax |-> Round2(net_total),
         tax_amount |-> Round2(tax_amount),
         grand_total |-> RAdd(Round2(net_total), Round2(tax_amount))]

\* Variant: the grand total leaves the tax out.
_calculate_summary_without_tax(line_items) ==
    LET grand_subtotal == RSum([i \in 1..Len(line_items) |-> line_items[i].subtotal])
        total_discount ==
            RSum([i \in 1..Len(line_items) |-> line_items[i].total_discount_applied])
        net_total == RSub(grand_subtotal, total_discount)
        tax_amount == RMul(net_total, tax_rate)
    IN  [grand_subtotal |-> Round2(grand_subtotal),
         total_discount |-> Round2(total_discount),
         net_total_before_tax |-> Round2(net_total),
         tax_amount |-> Round2(tax_amount),
         grand_total |-> Round2(net_total)]

_calculate_summary(line_items) ==
    LET grand_subtotal == RSum([i \in 1..Len(line_items) |-> line_items[i].subtotal])
        total_discount ==
            RSum([i \in 1..Len(line_items) |-> line_items[i].total_discount_applied])
        net_total == RSub(grand_subtotal, total_discount)
        tax_amount == RMul(net_total, tax_rate)
        grand_total == RAdd(net_total, tax_amount)
    IN  [grand_subtotal |-> Round2(grand_subtotal),
         total_discount |-> Round2(total_discount),
         net_total_before_tax |-> Round2(net_total),
         tax_amount |-> Round2(tax_amount),
         grand_total |-> Round2(grand_total)]

\* Variant: the gate looks at the items only, not at the gaps.
generate_quote_ignoring_gaps(event) ==
    IF ~_is_quotable(event.extracted_items)
    THEN [quote_id |-> event.email_id,
          status |-> "pending",
          pending_reason |-> PendingReason,
          gaps |-> Get(event, "gaps_identified", <<>>),
          line_items |-> <<>>,
          summary |-> <<>>]
    ELSE LET line_items == _calculate_line_items(event.extracted_items)
         IN  [quote_id |-> event.email_id,
              status |-> "success",
              line_items |-> line_items.value,
              summary |-> _calculate_summary(line_items.value)]

\* The Quote returned, or the exception raised.
generate_quote(event) ==
    LET email_id == event.email_id
        gaps == Get(event, "gaps_identified", <<>>)
    IN  IF gaps # <<>> \/ ~_is_quotable(event.extracted_items)
        THEN [quote_id |-> email_id,
              status |-> "pending",
              pending_reason |-> PendingReason,
              gaps |-> gaps,
              line_items |-> <<>>,
              summary |-> <<>>]
        ELSE LET line_items == _calculate_line_items(event.extracted_items)
             IN  IF line_items.raised # None THEN Raised(line_items.raised[1])
                 ELSE [quote_id |-> email_id,
                       status |-> "success",
                       line_items |-> line_items.value,
                       summary |-> _calculate_summary(line_items.value)]

----------------------------------------------------------------------------
(* What a call of generate_quote leaves in the objects it was handed *)

\* parsed_event is only read (quoting.py 29-33, 44).
EventAfterQuote(event) == event

\* Variant: the rules are sorted in place, list.sort().
RulesAfterQuoteSortedInPlace(rules) ==
    LET bulk == rules["bulk_discount"]
        order == SortedDescending([i \in 1..Len(bulk) |-> <<bulk[i].min_quantity>>])
    IN  [rules EXCEPT !["bulk_discount"] = [i \in 1..Len(bulk) |-> bulk[order[i]]]]

\* _get_bulk_discount sorts a copy: sorted(...), not list.sort() (quoting.py 101).
RulesAfterQuote(rules) == rules

\* price_list is only read (quoting.py 66).
PriceListAfterQuote(pl) == pl

----------------------------------------------------------------------------
(* Inputs of the quoting specifications *)

MaxItems == 2
MaxGaps == 2
MaxRules == 2
MaxCalls == 2

SeqsUpTo(S, n) == UNION {[1..k -> S] : k \in 0..n}

NonEmptySeqsUpTo(S, n) == UNION {[1..k -> S] : k \in 1..n}

Catalog ==
    [p \in {"ThinkPad X1", "USB Hub"} |->
        IF p = "ThinkPad X1" THEN [price |-> RInt(1000), category |-> "laptop"]
        ELSE [price |-> Rat(1999, 100), category |-> "accessory"]]

ScenarioCatalog == [p \in {"ThinkPad X1"} |-> [price |-> RInt(1000), category |-> "laptop"]]

ScenarioRules ==
    [tax_rate_percent |-> 10,
     bulk_discount |-> <<[min_quantity |-> 5, discount_percent |-> 10]>>,
     category_discount |-> [laptop |-> 5]]

GapTypes == {"MISSING_QUANTITY", "AMBIGUOUS_PRODUCT", "UNKNOWN_PRODUCT"}

Gaps == [type : GapTypes]

\* Items as any producer may hand them over: a product the price list does
\* not know, a missing name, a missing, zero or negative quantity.
AnyItems ==
    [product_name : {None, Some("ThinkPad X1"), Some("Ghost")},
     quantity : {None, Some(0), Some(-2), Some(5)}]

\* Items that name a product of the Catalog with a positive quantity.
PricedItems ==
    [product_name : {Some("ThinkPad X1"), Some("USB Hub")},
     quantity : {Some(1), Some(5), Some(12)}]

AnyEvents ==
    [email_id : {"id1", "id2"},
     extracted_items : SeqsUpTo(AnyItems, MaxItems),
     gaps_identified : SeqsUpTo(Gaps, MaxGaps)]

PricedEvents ==
    [email_id : {"id1"},
     extracted_items : NonEmptySeqsUpTo(PricedItems, MaxItems),
     gaps_identified : {<<>>}]

BulkRules == [min_quantity : {5, 10}, discount_percent : {10, 15}]

RuleSets ==
    [tax_rate_percent : {5, 10},
     bulk_discount : SeqsUpTo(BulkRules, MaxRules),
     category_discount : {<<>>, [laptop |-> 5]}]

\* The events of the interleaving runs: two the gate lets pass, one it stops
\* for a gap and one it stops for a missing quantity.
SharedEvents ==
    {[email_id |-> "id3",
      extracted_items |-> <<[product_name |-> Some("USB Hub"), quantity |-> Some(12)]>>,
      gaps_identified |-> <<>>],
     [email_id |-> "id4",
      extracted_items |-> <<[product_name |-> Some("ThinkPad X1"), quantity |-> Some(5)],
                            [product_name |-> Some("USB Hub"), quantity |-> Some(1)]>>,
      gaps_identified |-> <<>>],
     [email_id |-> "id5",
      extracted_items |-> <<[product_name |-> Some("ThinkPad X1"), quantity |-> None]>>,
      gaps_identified |-> <<[type |-> "MISSING_QUANTITY"]>>],
     [email_id |-> "id6",
      extracted_items |-> <<[product_name |-> Some("ThinkPad X1"), quantity |-> None]>>,
      gaps_identified |-> <<>>]}

NoCalls == [this |-> <<>>, other |-> <<>>]

\* No message is being parsed.
NoMessage == email_content = None /\ fuzzy = <<>> /\ cleaned_body = None

\* No pipeline is running.
NoPipeline ==
    /\ inbox = <<>> /\ events_dir = <<>> /\ outbox_dir = <<>> /\ quotes_dir = <<>>
    /\ timeline = <<>> /\ pc = <<>> /\ calls = <<>> /\ log_lock = <<>>

----------------------------------------------------------------------------
(* The quoting specification: a constructed QuoteGenerator and its caller *)

\* No constructor raised.
NoneRaised == [parser |-> None, generator |-> None]

Constructed(pl, dr) ==
    /\ config = [price_list |-> pl, discount_rules |-> dr]
    /\ ~IsRaised(EmailParserInit(pl))
    /\ ~IsRaised(QuoteGeneratorInit(pl, dr))
    /\ raised = NoneRaised
    /\ price_list = QuoteGeneratorInit(pl, dr).price_list
    /\ discount_rules = QuoteGeneratorInit(pl, dr).discount_rules
    /\ tax_rate = QuoteGeneratorInit(pl, dr).tax_rate

\* A caller that quotes one event once, as the pipelines do for each message.
InitQuote ==
    /\ \/ /\ Constructed(Catalog, ScenarioRules)
          /\ parsed_event \in AnyEvents
       \/ /\ \E dr \in RuleSets : Constructed(Catalog, dr)
          /\ parsed_event \in PricedEvents
    /\ other_event = None
    /\ quotes = NoCalls
    /\ bulk_call = None
    /\ quantity_call = None
    /\ NoMessage
    /\ NoPipeline

\* The effect of one call of generate_quote on the generator and the event.
QuoteCall(event, after) ==
    /\ after = EventAfterQuote(event)
    /\ discount_rules' = RulesAfterQuote(discount_rules)
    /\ price_list' = PriceListAfterQuote(price_list)
    /\ UNCHANGED <<tax_rate, bulk_call, quantity_call, email_content, fuzzy, cleaned_body, config,
                   raised, pipelineVars>>

\* The first quote_generator.generate_quote(parsed_event)
GenerateQuote ==
    /\ raised.generator = None
    /\ parsed_event # None
    /\ quotes.this = <<>>
    /\ quotes' = [quotes EXCEPT !.this = <<generate_quote(parsed_event)>>]
    /\ QuoteCall(parsed_event, parsed_event')
    /\ UNCHANGED other_event

NextQuote == GenerateQuote

SpecQuote == InitQuote /\ [][NextQuote]_vars

\* A caller that holds two events and quotes each of them repeatedly.
InitPurity ==
    /\ \E dr \in RuleSets : Constructed(Catalog, dr)
    /\ parsed_event \in SharedEvents
    /\ other_event \in {Some(e) : e \in SharedEvents}
    /\ quotes = NoCalls
    /\ bulk_call = None
    /\ quantity_call = None
    /\ NoMessage
    /\ NoPipeline

\* A further quote_generator.generate_quote(parsed_event)
GenerateQuoteAgain ==
    /\ quotes.this # <<>>
    /\ Len(quotes.this) < MaxCalls
    /\ quotes' = [quotes EXCEPT !.this = Append(@, generate_quote(parsed_event))]
    /\ QuoteCall(parsed_event, parsed_event')
    /\ UNCHANGED other_event

\* quote_generator.generate_quote(other_event)
GenerateOtherQuote ==
    /\ other_event # None
    /\ Len(quotes.other) < MaxCalls
    /\ quotes' = [quotes EXCEPT !.other = Append(@, generate_quote(other_event[1]))]
    /\ \E after \in {EventAfterQuote(other_event[1])} :
          /\ other_event' = Some(after)
          /\ QuoteCall(other_event[1], after)
    /\ UNCHANGED parsed_event

NextPurity == GenerateQuote \/ GenerateQuoteAgain \/ GenerateOtherQuote

SpecPurity == InitPurity /\ [][NextPurity]_vars

----------------------------------------------------------------------------
(* The bulk-discount specification: _get_bulk_discount on its own *)

BulkQuantities == {1, 5, 7, 10, 12}

InitBulk ==
    /\ \E dr \in RuleSets : Constructed(Catalog, dr)
    /\ parsed_event = None
    /\ other_event = None
    /\ quotes = NoCalls
    /\ bulk_call = None
    /\ quantity_call = None
    /\ NoMessage
    /\ NoPipeline

\* self._get_bulk_discount(quantity)
GetBulkDiscount ==
    /\ \E quantity \in BulkQuantities :
          bulk_call' = Some(<<quantity, _get_bulk_discount(quantity)>>)
    /\ UNCHANGED <<price_list, discount_rules, tax_rate, parsed_event, other_event, quotes,
                   quantity_call, email_content, fuzzy, cleaned_body, config,
                   raised, pipelineVars>>

NextBulk == GetBulkDiscount

SpecBulk == InitBulk /\ [][NextBulk]_vars

----------------------------------------------------------------------------
(* The configuration specification: the constructors on any configuration *)

\* The exception that left a constructor, None when it returned.
ExceptionOf(v) == IF IsRaised(v) THEN Some(v.raised) ELSE None

\* A dict without some of its keys.
RulesWithout(rules, keys) == [k \in DOMAIN rules \ keys |-> rules[k]]

PlainRules == [tax_rate_percent |-> 5, bulk_discount |-> <<>>, category_discount |-> <<>>]

RuleKeys == {"tax_rate_percent", "bulk_discount", "category_discount"}

\* Rules structures as discount_rules.json may hold them: complete, lacking
\* keys, or empty.
RuleConfigs == {RulesWithout(rules, keys) : rules \in {ScenarioRules, PlainRules},
                                            keys \in SUBSET RuleKeys}

\* Price lists as price_list.json may hold them: the Catalog or nothing.
PriceLists == {<<>>, Catalog}

\* An event whose only item names a product the price list does not have.
GhostEvent ==
    [email_id |-> "id7",
     extracted_items |-> <<[product_name |-> Some("Ghost"), quantity |-> Some(5)]>>,
     gaps_identified |-> <<>>]

\* parser = EmailParser(price_list); quote_generator = QuoteGenerator(price_list,
\* discount_rules): the state after both constructors ran. A generator whose
\* constructor raised has no fields.
InitConfig ==
    /\ \E pl \in PriceLists, dr \in RuleConfigs :
          /\ config = [price_list |-> pl, discount_rules |-> dr]
          /\ raised = [parser |-> ExceptionOf(EmailParserInit(pl)),
                       generator |-> ExceptionOf(QuoteGeneratorInit(pl, dr))]
          /\ IF IsRaised(QuoteGeneratorInit(pl, dr))
             THEN price_list = <<>> /\ discount_rules = <<>> /\ tax_rate = <<>>
             ELSE /\ price_list = QuoteGeneratorInit(pl, dr).price_list
                  /\ discount_rules = QuoteGeneratorInit(pl, dr).discount_rules
                  /\ tax_rate = QuoteGeneratorInit(pl, dr).tax_rate
    /\ parsed_event \in SharedEvents \cup {GhostEvent}
    /\ other_event = None
    /\ quotes = NoCalls
    /\ bulk_call = None
    /\ quantity_call = None
    /\ NoMessage
    /\ NoPipeline

NextConfig == GenerateQuote

SpecConfig == InitConfig /\ [][NextConfig]_vars

----------------------------------------------------------------------------
(* Texts: Python str as a sequence of one-character strings *)

UpperSeq == <<"A", "B", "C", "D", "E", "F", "G", "H", "I", "J", "K", "L", "M",
              "N", "O", "P", "Q", "R", "S", "T", "U", "V", "W", "X", "Y", "Z">>

LowerSeq == <<"a", "b", "c", "d", "e", "f", "g", "h", "i", "j", "k", "l", "m",
              "n", "o", "p", "q", "r", "s", "t", "u", "v", "w", "x", "y", "z">>

DigitSeq == <<"0", "1", "2", "3", "4", "5", "6", "7", "8", "9">>

Range(f) == {f[i] : i \in DOMAIN f}

Spaces == {" ", "\n", "\t"}

Digits == Range(DigitSeq)

WordChars == Range(UpperSeq) \cup Range(LowerSeq) \cup Digits \cup {"_"}

LowerOf == [c \in Range(UpperSeq) |-> LowerSeq[CHOOSE i \in DOMAIN UpperSeq : UpperSeq[i] = c]]

ValueOf == [c \in Digits |-> (CHOOSE i \in DOMAIN DigitSeq : DigitSeq[i] = c) - 1]

\* \s
IsSpace(c) == c \in Spaces

\* \d
IsDigit(c) == c \in Digits

\* \w
IsWordChar(c) == c \in WordChars

\* re.IGNORECASE compares letters in one case.
Lower(c) == IF c \in DOMAIN LowerOf THEN LowerOf[c] ELSE c

DigitVal(c) == ValueOf[c]

\* t[a:b] with 0 <= a, b <= len(t)
Slice(t, a, b) == SubSeq(t, a + 1, b)

\* \b between t[i-1] and t[i], 1-based, i in 1..Len(t)+1
Boundary(t, i) ==
    LET before == i > 1 /\ IsWordChar(t[i - 1])
        after == i <= Len(t) /\ IsWordChar(t[i])
    IN  before # after

\* The literal w, written in lower case, matches t at i whatever the case.
MatchesAt(t, i, w) ==
    /\ i + Len(w) - 1 <= Len(t)
    /\ \A k \in 1..Len(w) : Lower(t[i + k - 1]) = w[k]

\* \b w \b matches t at i.
WholeWordAt(t, i, w) ==
    /\ Boundary(t, i)
    /\ MatchesAt(t, i, w)
    /\ Boundary(t, i + Len(w))

\* re.search(r"\b" + re.escape(w) + r"\b", t, re.IGNORECASE) finds a match.
HasWholeWord(t, w) == \E i \in 1..Len(t) : WholeWordAt(t, i, w)

\* The end of the run of digits that starts at i.
RECURSIVE DigitRunEnd(_, _)
DigitRunEnd(t, i) ==
    IF i < Len(t) /\ IsDigit(t[i + 1]) THEN DigitRunEnd(t, i + 1) ELSE i

\* \b\d+\b matches t at i: a whole run of digits with no word character
\* on either side.
DigitsAt(t, i) ==
    /\ IsDigit(t[i])
    /\ Boundary(t, i)
    /\ Boundary(t, DigitRunEnd(t, i) + 1)

\* int(s) of a string of digits
RECURSIVE IntOf(_)
IntOf(s) == IF s = <<>> THEN 0 ELSE 10 * IntOf(SubSeq(s, 1, Len(s) - 1)) + DigitVal(s[Len(s)])

\* str.strip()
RECURSIVE LStrip(_)
LStrip(t) == IF t # <<>> /\ IsSpace(Head(t)) THEN LStrip(Tail(t)) ELSE t

RECURSIVE RStrip(_)
RStrip(t) ==
    IF t # <<>> /\ IsSpace(t[Len(t)]) THEN RStrip(SubSeq(t, 1, Len(t) - 1)) ELSE t

Strip(t) == RStrip(LStrip(t))

\* str.splitlines(): lines end at "\n"; no empty last line after a final "\n".
RECURSIVE SplitLinesFrom(_, _, _)
SplitLinesFrom(t, i, start) ==
    IF i > Len(t) THEN (IF start > Len(t) THEN <<>> ELSE <<SubSeq(t, start, Len(t))>>)
    ELSE IF t[i] = "\n"
    THEN <<SubSeq(t, start, i - 1)>> \o SplitLinesFrom(t, i + 1, i + 1)
    ELSE SplitLinesFrom(t, i + 1, start)

SplitLines(t) == SplitLinesFrom(t, 1, 1)

\* "\n".join(lines)
RECURSIVE JoinLines(_)
JoinLines(lines) ==
    IF lines = <<>> THEN <<>>
    ELSE IF Len(lines) = 1 THEN lines[1]
    ELSE lines[1] \o <<"\n">> \o JoinLines(Tail(lines))

\* [x for x in s if Keep(x)]
RECURSIVE SelectIndices(_, _, _)
SelectIndices(s, keep, i) ==
    IF i > Len(s) THEN <<>>
    ELSE (IF i \in keep THEN <<s[i]>> ELSE <<>>) \o SelectIndices(s, keep, i + 1)

\* str.split(): the whitespace-separated words; re.finditer(r"\S+", t): their
\* spans <<start, end>>, 0-based, end exclusive.
RECURSIVE TokenEnd(_, _)
TokenEnd(t, i) == IF i < Len(t) /\ ~IsSpace(t[i + 1]) THEN TokenEnd(t, i + 1) ELSE i

RECURSIVE TokensFrom(_, _)
TokensFrom(t, i) ==
    IF i > Len(t) THEN <<>>
    ELSE IF IsSpace(t[i]) THEN TokensFrom(t, i + 1)
    ELSE <<<<i - 1, TokenEnd(t, i)>>>> \o TokensFrom(t, TokenEnd(t, i) + 1)

Tokens(t) == TokensFrom(t, 1)

----------------------------------------------------------------------------
(* parse_quantity, src/src/utils/email_parser_helpers.py *)

W_one == <<"o", "n", "e">>
W_two == <<"t", "w", "o">>
W_three == <<"t", "h", "r", "e", "e">>
W_four == <<"f", "o", "u", "r">>
W_five == <<"f", "i", "v", "e">>
W_six == <<"s", "i", "x">>
W_seven == <<"s", "e", "v", "e", "n">>
W_eight == <<"e", "i", "g", "h", "t">>
W_nine == <<"n", "i", "n", "e">>
W_ten == <<"t", "e", "n">>
W_a_dozen == <<"a", " ", "d", "o", "z", "e", "n">>
W_dozen == <<"d", "o", "z", "e", "n">>
W_a_couple == <<"a", " ", "c", "o", "u", "p", "l", "e">>

\* word_to_num.items(), in the order the dict is written
word_to_num ==
    <<<<W_one, 1>>, <<W_two, 2>>, <<W_three, 3>>, <<W_four, 4>>, <<W_five, 5>>,
      <<W_six, 6>>, <<W_seven, 7>>, <<W_eight, 8>>, <<W_nine, 9>>, <<W_ten, 10>>,
      <<W_a_dozen, 12>>, <<W_dozen, 12>>, <<W_a_couple, 2>>>>

\* Variant: the words are checked in the order the dict is written.
NumberWordsInDictOrder == word_to_num

\* sorted(word_to_num.items(), key=lambda item: len(item[0]), reverse=True)
NumberWordsInCheckOrder ==
    LET order == SortedDescending([i \in DOMAIN word_to_num |-> <<Len(word_to_num[i][1])>>])
    IN  [i \in DOMAIN word_to_num |-> word_to_num[order[i]]]

\* The value of the first word of the list that occurs in text, if any.
RECURSIVE FirstNumberWord(_, _)
FirstNumberWord(words, text) ==
    IF words = <<>> THEN None
    ELSE IF HasWholeWord(text, Head(words)[1]) THEN Some(Head(words)[2])
    ELSE FirstNumberWord(Tail(words), text)

\* match = re.search(r"\b\d+\b", text); int(match.group(0))
FirstDigits(text) ==
    LET starts == {i \in 1..Len(text) : DigitsAt(text, i)}
    IN  IF starts = {} THEN None
        ELSE LET i == CHOOSE k \in starts : \A j \in starts : k <= j
             IN  Some(IntOf(SubSeq(text, i, DigitRunEnd(text, i))))

parse_quantity(text) ==
    LET word == FirstNumberWord(NumberWordsInCheckOrder, text)
    IN  IF word # None THEN word ELSE FirstDigits(text)

----------------------------------------------------------------------------
(* clean_email_body, src/src/utils/email_parser_helpers.py *)

\* "best regards"
S_best_regards ==
    <<"b", "e", "s", "t", " ", "r", "e", "g", "a", "r", "d", "s">>

\* "sincerely"
S_sincerely ==
    <<"s", "i", "n", "c", "e", "r", "e", "l", "y">>

\* "thank you"
S_thank_you ==
    <<"t", "h", "a", "n", "k", " ", "y", "o", "u">>

\* "thanks"
S_thanks ==
    <<"t", "h", "a", "n", "k", "s">>

\* "cheers"
S_cheers ==
    <<"c", "h", "e", "e", "r", "s">>

\* "regards"
S_regards ==
    <<"r", "e", "g", "a", "r", "d", "s">>

\* "best"
S_best ==
    <<"b", "e", "s", "t">>

\* The alternatives of sign_off_pattern, in the order they are written.
SignOffs == <<S_best_regards, S_sincerely, S_thank_you, S_thanks, S_cheers, S_regards, S_best>>

\* The alternatives of salutation_pattern.
Salutations == <<<<"d", "e", "a", "r">>, <<"h", "i">>, <<"h", "e", "l", "l", "o">>>>

\* The alternatives of the forwarded-header pattern, each followed by ":".
HeaderNames ==
    <<<<"f", "r", "o", "m", ":">>, <<"t", "o", ":">>, <<"s", "u", "b", "j", "e", "c", "t", ":">>,
      <<"d", "a", "t", "e", ":">>, <<"s", "e", "n", "t", ":">>>>

\* The sign-off pattern matches text at i (1-based).
SignOffAt(text, i) == \E k \in DOMAIN SignOffs : WholeWordAt(text, i, SignOffs[k])

\* Where the first match of the sign-off pattern starts, 0 when there is none.
FirstSignOff(text) ==
    LET starts == {i \in 1..Len(text) : SignOffAt(text, i)}
    IN  IF starts = {} THEN 0 ELSE CHOOSE i \in starts : \A j \in starts : i <= j

\* re.split(sign_off_pattern, text, maxsplit=1, flags=re.IGNORECASE)[0]
BeforeSignOff(text) ==
    IF FirstSignOff(text) = 0 THEN text ELSE SubSeq(text, 1, FirstSignOff(text) - 1)

\* re.match(salutation_pattern, line.strip(), re.IGNORECASE)
IsSalutation(line) ==
    LET stripped == Strip(line)
    IN  \E k \in DOMAIN Salutations :
            /\ MatchesAt(stripped, 1, Salutations[k])
            /\ Boundary(stripped, Len(Salutations[k]) + 1)

\* re.match(r"^(From|To|Subject|Date|Sent):", line.strip(), re.IGNORECASE)
IsHeaderLine(line) == \E k \in DOMAIN HeaderNames : MatchesAt(Strip(line), 1, HeaderNames[k])

\* line.strip().startswith(">")
IsQuotedLine(line) == Strip(line) # <<>> /\ Head(Strip(line)) = ">"

\* [line for line in lines if not Drop(line)]
Without(lines, dropped) == SelectIndices(lines, DOMAIN lines \ dropped, 1)

\* Variant: the text that follows the salutation on its own line is kept.
StartIndexKeepingLine(content_lines) == 0

\* start_index: one past the first salutation line, 0 when there is none.
StartIndex(content_lines) ==
    LET found == {i \in DOMAIN content_lines : IsSalutation(content_lines[i])}
    IN  IF found = {} THEN 0 ELSE CHOOSE i \in found : \A j \in found : i <= j

clean_email_body(text) ==
    LET lines == SplitLines(text)
        unquoted == JoinLines(Without(lines, {i \in DOMAIN lines : IsQuotedLine(lines[i])}))
        content == BeforeSignOff(unquoted)
        content_lines == SplitLines(content)
        start_index == StartIndex(content_lines)
        core_message == JoinLines(SubSeq(content_lines, start_index + 1, Len(content_lines)))
        core_lines == SplitLines(core_message)
    IN  Strip(JoinLines(Without(core_lines,
                                {i \in DOMAIN core_lines : IsHeaderLine(core_lines[i])})))

----------------------------------------------------------------------------
(* EmailParser, src/src/lightweight_offline/email_parser.py *)

HIGH_CONFIDENCE_THRESHOLD == 90
MEDIUM_CONFIDENCE_THRESHOLD == 75

\* len(ngram["text"]) < 4
MinNgramLength == 4

\* match["span"][0] - 50
QuantityWindow == 50

\* "ThinkPad X1"
N_ThinkPad_X1 ==
    <<"T", "h", "i", "n", "k", "P", "a", "d", " ", "X", "1">>

\* "USB Hub"
N_USB_Hub ==
    <<"U", "S", "B", " ", "H", "u", "b">>

\* The characters of the product names that are the keys of the price list.
NameText == [p \in {"ThinkPad X1", "USB Hub"} |-> IF p = "ThinkPad X1" THEN N_ThinkPad_X1 ELSE N_USB_Hub]

\* self.product_names = list(price_list.keys())
product_names == DOMAIN price_list

Max(S) == CHOOSE m \in S : \A x \in S : x <= m

\* max(len(p.split()) for p in self.product_names) + 1
max_n == Max({Len(Tokens(NameText[p])) : p \in product_names}) + 1

\* fuzzy_process.extractOne(text, self.product_names): the best product and
\* its score as the scorer in use rates them; a text the table does not
\* list scores 0.
extractOne(text) ==
    IF text \in DOMAIN fuzzy THEN fuzzy[text]
    ELSE [product |-> CHOOSE p \in product_names : TRUE, score |-> 0]

\* The n-grams of n words, left to right.
NgramsOf(body, tokens, n) ==
    [i \in 1..(Len(tokens) - n + 1) |->
        [text |-> Slice(body, tokens[i][1], tokens[i + n - 1][2]),
         span |-> <<tokens[i][1], tokens[i + n - 1][2]>>]]

RECURSIVE NgramsFrom(_, _, _)
NgramsFrom(body, tokens, n) ==
    IF n > max_n THEN <<>>
    ELSE NgramsOf(body, tokens, n) \o NgramsFrom(body, tokens, n + 1)

\* Step 1: all n-grams, by n and then by position.
Ngrams(body) == NgramsFrom(body, Tokens(body), 1)

\* Variant: every n-gram is kept, whatever its score.
IsKeptAlways(ngram) == Len(ngram.text) >= MinNgramLength

\* The n-gram is long enough and scores at least the medium threshold.
IsKept(ngram) ==
    /\ Len(ngram.text) >= MinNgramLength
    /\ extractOne(ngram.text).score >= MEDIUM_CONFIDENCE_THRESHOLD

\* Step 2: the scored matches, in the order of the n-grams.
ScoredMatches(body) ==
    LET ngrams == Ngrams(body)
        kept == SelectIndices(ngrams, {i \in DOMAIN ngrams : IsKept(ngrams[i])}, 1)
    IN  [i \in DOMAIN kept |->
            [text |-> kept[i].text,
             span |-> kept[i].span,
             product |-> extractOne(kept[i].text).product,
             score |-> extractOne(kept[i].text).score,
             length |-> Len(kept[i].text)]]

\* range(match_start, match_end)
Positions(match) == {i \in match.span[1]..(match.span[2] - 1) : TRUE}

\* Variant: every match is accepted, overlapping or not.
IsOverlappingNever(match, used_indices) == FALSE

IsOverlapping(match, used_indices) == Positions(match) \cap used_indices # {}

RECURSIVE Accept(_, _, _)
Accept(matches, used_indices, final_matches) ==
    IF matches = <<>> THEN final_matches
    ELSE IF IsOverlapping(Head(matches), used_indices)
    THEN Accept(Tail(matches), used_indices, final_matches)
    ELSE Accept(Tail(matches), used_indices \cup Positions(Head(matches)),
                Append(final_matches, Head(matches)))

\* Variant: the candidates are accepted greedily in the order of the n-grams.
FinalMatchesUnsorted(body) == Accept(ScoredMatches(body), {}, <<>>)

\* Step 3: sort by (score, length) descending and accept greedily.
FinalMatches(body) ==
    LET scored_matches == ScoredMatches(body)
        order == SortedDescending([i \in DOMAIN scored_matches |->
                                      <<scored_matches[i].score, scored_matches[i].length>>])
    IN  Accept([i \in DOMAIN scored_matches |-> scored_matches[order[i]]], {}, <<>>)

\* Variant: the quantity is looked for in the 10 characters before the match.
QuantityOfShortWindow(body, match) ==
    LET start == match.span[1]
        window_start == IF start - 10 > 0 THEN start - 10 ELSE 0
    IN  parse_quantity(Slice(body, window_start, start))

\* Step 4: the quantity found in the window before the match.
QuantityOf(body, match) ==
    LET start == match.span[1]
        window_start == IF start - QuantityWindow > 0 THEN start - QuantityWindow ELSE 0
    IN  parse_quantity(Slice(body, window_start, start))

\* Step 5: the item of one match and the gaps it adds.
ItemOf(body, match) ==
    LET quantity == QuantityOf(body, match)
    IN  [product_name |->
            IF match.score >= HIGH_CONFIDENCE_THRESHOLD THEN Some(match.product) ELSE None,
         mentioned_as |-> match.text,
         quantity |-> quantity,
         confidence |-> [product |-> Rat(match.score, 100),
                         quantity |-> IF TruthyInt(quantity) THEN RInt(1) ELSE RInt(0)]]

GapsOf(body, match) ==
    IF match.score >= HIGH_CONFIDENCE_THRESHOLD
    THEN IF ~TruthyInt(QuantityOf(body, match))
         THEN <<[type |-> "MISSING_QUANTITY", details |-> <<match.product>>]>>
         ELSE <<>>
    ELSE <<[type |-> "AMBIGUOUS_PRODUCT",
            details |-> <<match.text, match.product, match.score>>]>>

RECURSIVE GapsOfAll(_, _)
GapsOfAll(body, matches) ==
    IF matches = <<>> THEN <<>>
    ELSE GapsOf(body, Head(matches)) \o GapsOfAll(body, Tail(matches))

UnknownProductGap == [type |-> "UNKNOWN_PRODUCT", details |-> <<>>]

\* Variant: the generic gap is added to every result.
extract_items_gap_always(body) ==
    LET final_matches == FinalMatches(body)
    IN  [items |-> [i \in DOMAIN final_matches |-> ItemOf(body, final_matches[i])],
         gaps |-> GapsOfAll(body, final_matches) \o <<UnknownProductGap>>]

\* The pair (items, gaps) that extract_items returns.
extract_items(body) ==
    LET final_matches == FinalMatches(body)
        items == [i \in DOMAIN final_matches |-> ItemOf(body, final_matches[i])]
        gaps == GapsOfAll(body, final_matches)
    IN  [items |-> items,
         gaps |-> IF items = <<>> /\ gaps = <<>> THEN <<UnknownProductGap>> ELSE gaps]

\* hashlib.sha256(content).hexdigest(): one id per content.
generate_email_id(content) == <<"sha256", content>>

\* Where the first match of \n\s*\n ends (1-based), 0 when there is none. A
\* match starts at a "\n" and runs to the last "\n" of the white space after it.
RECURSIVE SpaceRunEnd(_, _)
SpaceRunEnd(t, i) == IF i < Len(t) /\ IsSpace(t[i + 1]) THEN SpaceRunEnd(t, i + 1) ELSE i

BlankLineEnd(t) ==
    LET ends(i) == {k \in (i + 1)..SpaceRunEnd(t, i) : t[k] = "\n"}
        starts == {i \in 1..Len(t) : t[i] = "\n" /\ ends(i) # {}}
    IN  IF starts = {} THEN 0
        ELSE Max(ends(CHOOSE i \in starts : \A j \in starts : i <= j))

\* re.split(r"\n\s*\n", email_content, 1)[-1]
AfterHeaders(content) ==
    IF BlankLineEnd(content) = 0 THEN content
    ELSE SubSeq(content, BlankLineEnd(content) + 1, Len(content))

\* str.strip(chars)
RECURSIVE LStripChars(_, _)
LStripChars(t, chars) ==
    IF t # <<>> /\ Head(t) \in chars THEN LStripChars(Tail(t), chars) ELSE t

RECURSIVE RStripChars(_, _)
RStripChars(t, chars) ==
    IF t # <<>> /\ t[Len(t)] \in chars THEN RStripChars(SubSeq(t, 1, Len(t) - 1), chars) ELSE t

StripChars(t, chars) == RStripChars(LStripChars(t, chars), chars)

\* The literal w matches t at i (1-based), case and all.
LiteralAt(t, i, w) == i + Len(w) - 1 <= Len(t) /\ SubSeq(t, i, i + Len(w) - 1) = w

\* ^ under re.MULTILINE
LineStart(t, i) == i = 1 \/ t[i - 1] = "\n"

Least(S) == CHOOSE m \in S : \A x \in S : m <= x

\* "From:"
T_From == <<"F", "r", "o", "m", ":">>

\* "Subject:"
T_Subject == <<"S", "u", "b", "j", "e", "c", "t", ":">>

\* "unknown@example.com"
UnknownEmail == <<"u", "n", "k", "n", "o", "w", "n", "@", "e", "x", "a", "m", "p", "l", "e", ".", "c", "o", "m">>

\* "No Subject"
NoSubject == <<"N", "o", " ", "S", "u", "b", "j", "e", "c", "t">>

\* The first alternative of the From pattern, \s*(.*?)\s*<([^>]+)>, tried
\* right after "From:" (a is the 1-based index of the next character): the
\* name starts at s, after as much white space as possible, and ends at e, as
\* early as possible, on the same line; white space and "<" follow; the
\* address runs to the first ">" and is not empty. The groups, or None.
NameAndEmailAt(t, a) ==
    LET lt(e) == SpaceRunEnd(t, e) + 1
        closes(e) == {g \in (lt(e) + 2)..Len(t) : t[g] = ">"}
        fits(s, e) ==
            /\ \A k \in s..e : t[k] # "\n"
            /\ lt(e) <= Len(t) /\ t[lt(e)] = "<"
            /\ lt(e) + 1 <= Len(t) /\ t[lt(e) + 1] # ">"
            /\ closes(e) # {}
        starts == {s \in a..(SpaceRunEnd(t, a - 1) + 1) :
                      \E e \in (s - 1)..Len(t) : fits(s, e)}
    IN  IF starts = {} THEN None
        ELSE LET s == Max(starts)
                 e == Least({x \in (s - 1)..Len(t) : fits(s, x)})
             IN  Some([name |-> SubSeq(t, s, e),
                       email |-> SubSeq(t, lt(e) + 1, Least(closes(e)) - 1)])

\* The end of the run of characters of [^\s@] that starts at i, i - 1 when
\* there is none.
RECURSIVE AddressRunEnd(_, _)
AddressRunEnd(t, i) ==
    IF i <= Len(t) /\ ~IsSpace(t[i]) /\ t[i] # "@" THEN AddressRunEnd(t, i + 1) ELSE i - 1

\* The second alternative, \s*([^\s@]+@[^\s@]+\.[^\s@]+): the address, or None.
EmailOnlyAt(t, a) ==
    LET s == SpaceRunEnd(t, a - 1) + 1
        at == AddressRunEnd(t, s) + 1
        last == AddressRunEnd(t, at + 1)
    IN  IF /\ at > s
           /\ at <= Len(t) /\ t[at] = "@"
           /\ \E q \in (at + 2)..(last - 1) : t[q] = "."
        THEN Some(SubSeq(t, s, last))
        ELSE None

\* Where re.search finds the From pattern, 0 when it does not.
HeaderMatch(content) ==
    LET found == {p \in 1..Len(content) :
                     /\ LineStart(content, p)
                     /\ LiteralAt(content, p, T_From)
                     /\ \/ NameAndEmailAt(content, p + Len(T_From)) # None
                        \/ EmailOnlyAt(content, p + Len(T_From)) # None}
    IN  IF found = {} THEN 0 ELSE Least(found)

\* Step 1 of parse_sender: the sender the From header gives.
SenderOfHeader(content) ==
    LET default == [name |-> None, email |-> UnknownEmail]
        a == HeaderMatch(content) + Len(T_From)
    IN  IF HeaderMatch(content) = 0 THEN default
        ELSE IF NameAndEmailAt(content, a) # None
        THEN LET groups == NameAndEmailAt(content, a)[1]
             IN  IF groups.name # <<>> /\ groups.email # <<>>
                 THEN [name |-> Some(Strip(groups.name)), email |-> Strip(groups.email)]
                 ELSE default
        ELSE [name |-> None, email |-> Strip(EmailOnlyAt(content, a)[1])]

\* The alternative of the sign-off pattern that matches at i.
SignOffMatchedAt(text, i) ==
    SignOffs[Least({k \in DOMAIN SignOffs : WholeWordAt(text, i, SignOffs[k])})]

\* re.split(sign_off_pattern, content, maxsplit=1, flags=re.IGNORECASE)[-1]
\* when the split has more than one part.
AfterSignOff(text) ==
    SubSeq(text, FirstSignOff(text) + Len(SignOffMatchedAt(text, FirstSignOff(text))), Len(text))

\* "A simple validation to ensure it looks like a name."
LooksLikeName(potential_name) ==
    /\ Len(potential_name) > 1
    /\ Len(Tokens(potential_name)) <= 2
    /\ \A k \in DOMAIN potential_name : potential_name[k] \notin {"@", "<", ">"}

\* Variant: the scan stops at the first line that looks like a name.
NameOfSignatureFirst(signature_lines) ==
    LET potential(i) == StripChars(signature_lines[i], {",", "-", " "})
        names == {i \in DOMAIN signature_lines : LooksLikeName(potential(i))}
    IN  IF names = {} THEN None ELSE Some(potential(Least(names)))

\* The loop over signature_lines: every line that looks like a name
\* overwrites the name.
NameOfSignature(signature_lines) ==
    LET potential(i) == StripChars(signature_lines[i], {",", "-", " "})
        names == {i \in DOMAIN signature_lines : LooksLikeName(potential(i))}
    IN  IF names = {} THEN None ELSE Some(potential(Max(names)))

\* [line.strip() for line in signature_block.splitlines() if line.strip()]
SignatureLines(signature_block) ==
    LET lines == SplitLines(signature_block)
        kept == SelectIndices(lines, {i \in DOMAIN lines : Strip(lines[i]) # <<>>}, 1)
    IN  [i \in DOMAIN kept |-> Strip(kept[i])]

parse_sender(content) ==
    LET sender_info == SenderOfHeader(content)
    IN  IF sender_info.name # None /\ sender_info.name[1] # <<>> THEN sender_info
        ELSE IF FirstSignOff(content) = 0 THEN sender_info
        ELSE LET found == NameOfSignature(SignatureLines(AfterSignOff(content)))
             IN  IF found = None THEN sender_info ELSE [sender_info EXCEPT !.name = found]

\* re.search(r"^Subject:\s*(.*)", content, re.MULTILINE): the rest of the line
\* after the white space that follows the first "Subject:" at a line start.
parse_subject(content) ==
    LET found == {p \in 1..Len(content) :
                     LineStart(content, p) /\ LiteralAt(content, p, T_Subject)}
    IN  IF found = {} THEN NoSubject
        ELSE LET s == SpaceRunEnd(content, Least(found) + Len(T_Subject) - 1) + 1
                 rest == SubSeq(content, s, Len(content))
             IN  Strip(IF SplitLines(rest) = <<>> THEN <<>> ELSE SplitLines(rest)[1])

\* The ParsedEvent of one message.
parse_email(content, now) ==
    LET extracted == extract_items(clean_email_body(AfterHeaders(content)))
    IN  [email_id |-> generate_email_id(content),
         sender |-> parse_sender(content),
         subject |-> parse_subject(content),
         received_at |-> now,
         extracted_items |-> extracted.items,
         currency_mentioned |-> None,
         gaps_identified |-> extracted.gaps]

----------------------------------------------------------------------------
(* The message specification: one message parsed and then quoted *)

MaxKept == 2

\* "Hi, I would like to buy 5 ThinkPad X1 laptops please. Thanks, John"
ScenarioEmail ==
    <<"H", "i", ",", " ", "I", " ", "w", "o", "u", "l", "d", " ", "l", "i", "k", "e", " ", "t",
      "o", " ", "b", "u", "y", " ", "5", " ", "T", "h", "i", "n", "k", "P", "a", "d", " ", "X",
      "1", " ", "l", "a", "p", "t", "o", "p", "s", " ", "p", "l", "e", "a", "s", "e", ".", " ",
      "T", "h", "a", "n", "k", "s", ",", " ", "J", "o", "h", "n">>

\* "Hi,\nI would like to buy 5 ThinkPad X1 laptops please.\nThanks, John"
ScenarioEmailOnLines ==
    <<"H", "i", ",", "\n", "I", " ", "w", "o", "u", "l", "d", " ", "l", "i", "k", "e", " ",
      "t", "o", " ", "b", "u", "y", " ", "5", " ", "T", "h", "i", "n", "k", "P", "a", "d", " ",
      "X", "1", " ", "l", "a", "p", "t", "o", "p", "s", " ", "p", "l", "e", "a", "s", "e", ".",
      "\n", "T", "h", "a", "n", "k", "s", ",", " ", "J", "o", "h", "n">>

\* "Hello,\nplease send a dozen USB Hubs and 2 ThinkPad X1\nRegards,\nAnn"
OrderEmail ==
    <<"H", "e", "l", "l", "o", ",", "\n", "p", "l", "e", "a", "s", "e", " ", "s", "e", "n",
      "d", " ", "a", " ", "d", "o", "z", "e", "n", " ", "U", "S", "B", " ", "H", "u", "b", "s",
      " ", "a", "n", "d", " ", "2", " ", "T", "h", "i", "n", "k", "P", "a", "d", " ", "X", "1",
      "\n", "R", "e", "g", "a", "r", "d", "s", ",", "\n", "A", "n", "n">>

\* "We need ThinkPad X1 now"
BareEmail ==
    <<"W", "e", " ", "n", "e", "e", "d", " ", "T", "h", "i", "n", "k", "P", "a", "d", " ", "X",
      "1", " ", "n", "o", "w">>

\* "Dear team,\nwe want 3 widgets\nCheers"
WidgetEmail ==
    <<"D", "e", "a", "r", " ", "t", "e", "a", "m", ",", "\n", "w", "e", " ", "w", "a", "n",
      "t", " ", "3", " ", "w", "i", "d", "g", "e", "t", "s", "\n", "C", "h", "e", "e", "r", "s">>

\* "From: Ann <ann@x.io>\nSubject: Order\n\nHi Bob,\n0 USB Hubs please\nThanks"
HeaderEmail ==
    <<"F", "r", "o", "m", ":", " ", "A", "n", "n", " ", "<", "a", "n", "n", "@", "x", ".", "i",
      "o", ">", "\n", "S", "u", "b", "j", "e", "c", "t", ":", " ", "O", "r", "d", "e", "r",
      "\n", "\n", "H", "i", " ", "B", "o", "b", ",", "\n", "0", " ", "U", "S", "B", " ", "H",
      "u", "b", "s", " ", "p", "l", "e", "a", "s", "e", "\n", "T", "h", "a", "n", "k", "s">>

\* "Send 7 now. We have been waiting for weeks and weeks for the USB Hubs": the number lies more than 50
\* characters before the product.
LongEmail ==
    <<"S", "e", "n", "d", " ", "7", " ", "n", "o", "w", ".", " ", "W", "e", " ", "h", "a",
      "v", "e", " ", "b", "e", "e", "n", " ", "w", "a", "i", "t", "i", "n", "g", " ", "f",
      "o", "r", " ", "w", "e", "e", "k", "s", " ", "a", "n", "d", " ", "w", "e", "e", "k",
      "s", " ", "f", "o", "r", " ", "t", "h", "e", " ", "U", "S", "B", " ", "H", "u", "b",
      "s">>

\* "ThinkPad"
P_ThinkPad ==
    <<"T", "h", "i", "n", "k", "P", "a", "d">>

\* "5 ThinkPad X1"
P_5_ThinkPad_X1 ==
    <<"5", " ", "T", "h", "i", "n", "k", "P", "a", "d", " ", "X", "1">>

\* "X1 laptops"
P_X1_laptops ==
    <<"X", "1", " ", "l", "a", "p", "t", "o", "p", "s">>

\* "USB Hubs"
P_USB_Hubs ==
    <<"U", "S", "B", " ", "H", "u", "b", "s">>

\* "X1", shorter than the texts that are scored
P_X1 ==
    <<"X", "1">>

ScenarioEmails == {ScenarioEmail, ScenarioEmailOnLines}

Emails == {OrderEmail, BareEmail, WidgetEmail, HeaderEmail, LongEmail}

\* The phrases a scorer may rate near the medium threshold or above.
HotPhrases ==
    {N_ThinkPad_X1, P_ThinkPad, P_5_ThinkPad_X1, P_X1_laptops, P_USB_Hubs, P_X1}

\* The scores such a phrase may get: each threshold, the score just below
\* each, one in each tier, and the score of an exact match.
Scores == {74, 75, 80, 90, 95, 100}

Occurs(phrase, text) ==
    \E i \in 1..(Len(text) - Len(phrase) + 1) : SubSeq(text, i, i + Len(phrase) - 1) = phrase

RECURSIVE SubsetsUpTo(_, _)
SubsetsUpTo(S, k) ==
    IF k = 0 THEN {{}}
    ELSE SubsetsUpTo(S, k - 1) \cup {T \cup {x} : T \in SubsetsUpTo(S, k - 1), x \in S}

\* The scorers: at most MaxKept phrases of the message rated, each with any
\* product of the price list and any of the scores.
Scorers(content, names) ==
    UNION {[T -> [product : names, score : Scores]] :
              T \in SubsetsUpTo({h \in HotPhrases : Occurs(h, content)}, MaxKept)}

Timestamps == {"2025-01-01T00:00:00+00:00"}

Init ==
    /\ \/ /\ Constructed(ScenarioCatalog, ScenarioRules)
          /\ \E content \in ScenarioEmails :
                /\ email_content = Some(content)
                /\ fuzzy \in Scorers(content, DOMAIN ScenarioCatalog)
       \/ /\ Constructed(Catalog, ScenarioRules)
          /\ \E content \in Emails :
                /\ email_content = Some(content)
                /\ fuzzy \in Scorers(content, DOMAIN Catalog)
    /\ cleaned_body = None
    /\ parsed_event = None
    /\ other_event = None
    /\ quotes = NoCalls
    /\ bulk_call = None
    /\ quantity_call = None
    /\ NoPipeline

\* parser.parse_email(content)
ParseEmail ==
    /\ email_content # None
    /\ parsed_event = None
    /\ \E now \in Timestamps : parsed_event' = parse_email(email_content[1], now)
    /\ cleaned_body' = Some(clean_email_body(AfterHeaders(email_content[1])))
    /\ UNCHANGED <<price_list, discount_rules, tax_rate, other_event, quotes, bulk_call,
                   quantity_call, email_content, fuzzy, config, raised,
                   pipelineVars>>

Next == ParseEmail \/ GenerateQuote

Spec == Init /\ [][Next]_vars

----------------------------------------------------------------------------
(* The sender specification: messages with any header and signature *)

MaxLines == 2

\* "From: Ann <ann@x.io>\n"
H_NameAndEmail ==
    <<"F", "r", "o", "m", ":", " ", "A", "n", "n", " ", "<", "a", "n", "n", "@", "x", ".", "i",
      "o", ">", "\n">>

\* "From: ann@x.io\n"
H_EmailOnly ==
    <<"F", "r", "o", "m", ":", " ", "a", "n", "n", "@", "x", ".", "i", "o", "\n">>

\* "From: <ann@x.io>\n"
H_NoName ==
    <<"F", "r", "o", "m", ":", " ", "<", "a", "n", "n", "@", "x", ".", "i", "o", ">", "\n">>

\* "Hi,\nsend 2 hubs\n"
B_Order ==
    <<"H", "i", ",", "\n", "s", "e", "n", "d", " ", "2", " ", "h", "u", "b", "s", "\n">>

\* "Thanks,\n"
B_Thanks ==
    <<"T", "h", "a", "n", "k", "s", ",", "\n">>

\* "Bye,\n"
B_Bye ==
    <<"B", "y", "e", ",", "\n">>

\* "John"
L_John ==
    <<"J", "o", "h", "n">>

\* "J"
L_J ==
    <<"J">>

\* "- Ann Lee -"
L_Ann_Lee ==
    <<"-", " ", "A", "n", "n", " ", "L", "e", "e", " ", "-">>

\* "John Q Public"
L_John_Q_Public ==
    <<"J", "o", "h", "n", " ", "Q", " ", "P", "u", "b", "l", "i", "c">>

\* "ann@x.io"
L_Address ==
    <<"a", "n", "n", "@", "x", ".", "i", "o">>

\* "--"
L_Dashes ==
    <<"-", "-">>

SenderHeads == {<<>>, H_NameAndEmail, H_EmailOnly, H_NoName}

SenderClosings == {B_Thanks, B_Bye}

SignatureLineTexts == {L_John, L_J, L_Ann_Lee, L_John_Q_Public, L_Address, L_Dashes}

\* Header, greeting and order, closing, and up to MaxLines lines after it.
SenderTexts ==
    {head \o B_Order \o closing \o JoinLines(lines) :
        head \in SenderHeads, closing \in SenderClosings,
        lines \in SeqsUpTo(SignatureLineTexts, MaxLines)}

InitSender ==
    /\ Constructed(Catalog, ScenarioRules)
    /\ \E content \in SenderTexts : email_content = Some(content)
    /\ fuzzy = <<>>
    /\ cleaned_body = None
    /\ parsed_event = None
    /\ other_event = None
    /\ quotes = NoCalls
    /\ bulk_call = None
    /\ quantity_call = None
    /\ NoPipeline

NextSender == ParseEmail

SpecSender == InitSender /\ [][NextSender]_vars

----------------------------------------------------------------------------
(* The quantity specification: parse_quantity on its own *)

MaxWords == 3

\* The words the texts are built from: number words, one in capitals and one
\* followed by a comma, digit runs, and words that only contain a number word
\* or a digit.
QuantityWords ==
    {<<"a">>, W_dozen, W_two, <<"T", "h", "r", "e", "e">>, <<"t", "e", "n", ",">>,
     <<"5">>, <<"1", "2">>, <<"s", "t", "o", "n", "e">>, <<"x", "1">>,
     <<"u", "n", "i", "t", "s">>}

\* " ".join(words)
RECURSIVE JoinWords(_)
JoinWords(words) ==
    IF words = <<>> THEN <<>>
    ELSE IF Len(words) = 1 THEN words[1]
    ELSE words[1] \o <<" ">> \o JoinWords(Tail(words))

\* "please send a dozen units"
PleaseSendADozenUnits ==
    JoinWords(<<<<"p", "l", "e", "a", "s", "e">>, <<"s", "e", "n", "d">>, <<"a">>, W_dozen,
                <<"u", "n", "i", "t", "s">>>>)

QuantityTexts ==
    {JoinWords(ws) : ws \in SeqsUpTo(QuantityWords, MaxWords)} \cup {PleaseSendADozenUnits}

InitQuantity ==
    /\ Constructed(Catalog, ScenarioRules)
    /\ parsed_event = None
    /\ other_event = None
    /\ quotes = NoCalls
    /\ bulk_call = None
    /\ quantity_call = None
    /\ NoMessage
    /\ NoPipeline

\* parse_quantity(text)
ParseQuantity ==
    /\ quantity_call = None
    /\ \E text \in QuantityTexts : quantity_call' = Some(<<text, parse_quantity(text)>>)
    /\ UNCHANGED <<price_list, discount_rules, tax_rate, parsed_event, other_event, quotes,
                   bulk_call, email_content, fuzzy, cleaned_body, config,
                   raised, pipelineVars>>

NextQuantity == ParseQuantity

SpecQuantity == InitQuantity /\ [][NextQuantity]_vars

----------------------------------------------------------------------------
(* The pipelines: main() of fuzzyparsing_pipeline.py and of llm_pipeline.py *)

\* Reads and writes the file system lets fail, over all runs.
MaxFailures == 2

\* One line of activity.jsonl: the event type, the status and the message or
\* file the entry is about.
log_activity(event_type, status, about) ==
    [event_type |-> event_type, status |-> status, about |-> about]

\* A file of the inbox, as the entries and the calls name it.
FileRef(email_file) == <<"file", email_file>>

\* email_file.stem, the id the LLM pipeline gives a message.
Stem(email_file) == <<"stem", email_file>>

\* One call main() made: what was called, for which message, and whether it
\* returned (TRUE) or raised (FALSE); a validation records its verdict.
Call(op, email_id, ok) == [op |-> op, email_id |-> email_id, ok |-> ok]

\* What open(path, "w") followed by json.dump leaves: the whole file, a file
\* cut short by a failing write, or no new file when open itself fails.
WriteOutcomes == {"written", "cut_short", "not_created"}

Put(dir, name, file) == [x \in DOMAIN dir \cup {name} |-> IF x = name THEN file ELSE dir[x]]

\* A file system on which no file can be created.
FileAfterFailedOpen(dir, name, outcome, data) == dir

FileAfter(dir, name, outcome, data) ==
    CASE outcome = "written" -> Put(dir, name, Some(data))
      [] outcome = "cut_short" -> Put(dir, name, None)
      [] outcome = "not_created" -> dir

\* A pipeline that never finds the output file of a message.
ExistsNever(dir, name) == FALSE

\* Path.exists() of the output file of a message: the idempotency check of
\* each stage.
Exists(dir, name) == name \in DOMAIN dir

\* The file system lets another read or write fail.
CanFail == pc.failures < MaxFailures

\* AcknowledgmentGenerator.generate_acknowledgment: the recipient and the
\* subject; the body is kept as the values its text is rendered from.
generate_acknowledgment(parsed_event_data) ==
    [recipient_email |-> parsed_event_data.sender.email,
     subject |-> <<"R", "e", ":", " ">> \o parsed_event_data.subject,
     body |-> [sender_name |-> parsed_event_data.sender.name,
               items |-> parsed_event_data.extracted_items,
               gaps |-> parsed_event_data.gaps_identified]]

\* The keys validate_llm_output requires.
required_keys ==
    {"sender_email", "extracted_items", "gaps_identified", "drafted_acknowledgment_body"}

validate_llm_output(llm_output, pl) ==
    /\ required_keys \subseteq DOMAIN llm_output
    /\ \A i \in DOMAIN llm_output.extracted_items :
          LET product_name == Get(llm_output.extracted_items[i], "product_name", None)
          IN  TruthyStr(product_name) => product_name[1] \in DOMAIN pl

\* The log entries main() writes before the first message of a run.
StartEntries(pipeline) ==
    IF pipeline = "fuzzy"
    THEN <<log_activity("WORKFLOW_START", "INFO", <<>>),
           log_activity("SETUP", "SUCCESS", <<>>),
           log_activity("EMAIL_PROCESSING_START", "INFO", <<>>)>>
    ELSE <<log_activity("WORKFLOW_START", "INFO", <<>>),
           log_activity("SETUP", "SUCCESS", <<>>)>>

\* main() at the head of its first loop.
Started(pipeline, run, failures) ==
    [pipeline |-> pipeline, run |-> run, stage |-> "parsing", todo |-> DOMAIN inbox,
     failures |-> failures]

\* The position after one more file of the loop, Failed when a read or a
\* write failed for it.
Done(file) == [pc EXCEPT !.todo = @ \ {file}]

\* A loop that gives up at the first file that fails.
FailedAbortsStage(file) == [pc EXCEPT !.todo = {}, !.failures = @ + 1]

Failed(file) == [pc EXCEPT !.todo = @ \ {file}, !.failures = @ + 1]

AtStage(pipeline, stage) == pc.pipeline = pipeline /\ pc.stage = stage

\* Stage 3 of the fuzzy pipeline, one file of the inbox.
FuzzyParseEmail ==
    /\ AtStage("fuzzy", "parsing")
    /\ \E email_file \in pc.todo :
          LET content == inbox[email_file]
              email_id == generate_email_id(content)
          IN  \/ \* open or read raises
                 /\ CanFail
                 /\ pc' = Failed(email_file)
                 /\ timeline' = Append(timeline,
                        log_activity("EMAIL_PARSE", "FAILURE", FileRef(email_file)))
                 /\ calls' = Append(calls, Call("read", FileRef(email_file), FALSE))
                 /\ UNCHANGED events_dir
              \/ \* the event file exists
                 /\ Exists(events_dir, email_id)
                 /\ pc' = Done(email_file)
                 /\ timeline' = Append(timeline,
                        log_activity("EMAIL_PROCESSING_SKIP", "INFO", email_id))
                 /\ calls' = Append(calls, Call("read", FileRef(email_file), TRUE))
                 /\ UNCHANGED events_dir
              \/ /\ ~Exists(events_dir, email_id)
                 /\ \E now \in Timestamps, written \in WriteOutcomes :
                       /\ written # "written" => CanFail
                       /\ events_dir' = FileAfter(events_dir, email_id, written,
                                                  parse_email(content, now))
                       /\ pc' = IF written = "written" THEN Done(email_file)
                                ELSE Failed(email_file)
                       /\ timeline' = Append(timeline,
                              IF written = "written"
                              THEN log_activity("EMAIL_PARSE", "SUCCESS", email_id)
                              ELSE log_activity("EMAIL_PARSE", "FAILURE", FileRef(email_file)))
                       /\ calls' = calls \o
                              <<Call("read", FileRef(email_file), TRUE),
                                Call("parse_email", email_id, TRUE),
                                Call("write_event", email_id, written = "written")>>
    /\ UNCHANGED <<inbox, outbox_dir, quotes_dir>>
    /\ UNCHANGED <<coreVars, log_lock>>

\* The end of stage 3 and the head of stage 4: events_dir.glob("*.json").
FuzzyEndParsing ==
    /\ AtStage("fuzzy", "parsing")
    /\ pc.todo = {}
    /\ pc' = [pc EXCEPT !.stage = "ack", !.todo = DOMAIN events_dir]
    /\ timeline' = timeline \o <<log_activity("EMAIL_PROCESSING_END", "INFO", <<>>),
                                 log_activity("ACK_GENERATION_START", "INFO", <<>>)>>
    /\ UNCHANGED <<inbox, events_dir, outbox_dir, quotes_dir, calls>>
    /\ UNCHANGED <<coreVars, log_lock>>

\* Stage 4 of the fuzzy pipeline, one event file. json.load raises on a file
\* that was cut short; what json.dump wrote, json.load reads back unchanged.
FuzzyAcknowledge ==
    /\ AtStage("fuzzy", "ack")
    /\ \E email_id \in pc.todo :
          \/ /\ Exists(outbox_dir, email_id)
             /\ pc' = Done(email_id)
             /\ timeline' = Append(timeline,
                    log_activity("ACK_GENERATION_SKIP", "INFO", email_id))
             /\ UNCHANGED <<outbox_dir, calls>>
          \/ /\ ~Exists(outbox_dir, email_id)
             /\ \/ events_dir[email_id] = None /\ pc' = Done(email_id)
                \/ CanFail /\ pc' = Failed(email_id)
             /\ timeline' = Append(timeline,
                    log_activity("ACK_DRAFT_CREATE", "FAILURE", email_id))
             /\ calls' = Append(calls, Call("load_event", email_id, FALSE))
             /\ UNCHANGED outbox_dir
          \/ /\ ~Exists(outbox_dir, email_id)
             /\ events_dir[email_id] # None
             /\ \E written \in WriteOutcomes :
                   /\ written # "written" => CanFail
                   /\ outbox_dir' = FileAfter(outbox_dir, email_id, written,
                                       generate_acknowledgment(events_dir[email_id][1]))
                   /\ pc' = IF written = "written" THEN Done(email_id)
                            ELSE Failed(email_id)
                   /\ timeline' = Append(timeline,
                          log_activity("ACK_DRAFT_CREATE",
                              IF written = "written" THEN "SUCCESS" ELSE "FAILURE",
                              email_id))
                   /\ calls' = calls \o
                          <<Call("load_event", email_id, TRUE),
                            Call("generate_acknowledgment", email_id, TRUE),
                            Call("write_ack", email_id, written = "written")>>
    /\ UNCHANGED <<inbox, events_dir, quotes_dir>>
    /\ UNCHANGED <<coreVars, log_lock>>

\* The end of stage 4 and the head of stage 5.
FuzzyEndAcknowledging ==
    /\ AtStage("fuzzy", "ack")
    /\ pc.todo = {}
    /\ pc' = [pc EXCEPT !.stage = "quoting", !.todo = DOMAIN events_dir]
    /\ timeline' = timeline \o <<log_activity("ACK_GENERATION_END", "INFO", <<>>),
                                 log_activity("QUOTE_GENERATION_START", "INFO", <<>>)>>
    /\ UNCHANGED <<inbox, events_dir, outbox_dir, quotes_dir, calls>>
    /\ UNCHANGED <<coreVars, log_lock>>

\* Stage 5 of the fuzzy pipeline, one event file.
FuzzyQuote ==
    /\ AtStage("fuzzy", "quoting")
    /\ \E email_id \in pc.todo :
          \/ /\ Exists(quotes_dir, email_id)
             /\ pc' = Done(email_id)
             /\ timeline' = Append(timeline,
                    log_activity("QUOTE_GENERATION_SKIP", "INFO", email_id))
             /\ UNCHANGED <<quotes_dir, calls>>
          \/ /\ ~Exists(quotes_dir, email_id)
             /\ \/ events_dir[email_id] = None /\ pc' = Done(email_id)
                \/ CanFail /\ pc' = Failed(email_id)
             /\ timeline' = Append(timeline,
                    log_activity("QUOTE_CREATE", "FAILURE", email_id))
             /\ calls' = Append(calls, Call("load_event", email_id, FALSE))
             /\ UNCHANGED quotes_dir
          \/ /\ ~Exists(quotes_dir, email_id)
             /\ events_dir[email_id] # None
             /\ LET quote_data == generate_quote(events_dir[email_id][1])
                IN  IF IsRaised(quote_data)
                    THEN /\ pc' = Done(email_id)
                         /\ timeline' = Append(timeline,
                                log_activity("QUOTE_CREATE", "FAILURE", email_id))
                         /\ calls' = calls \o
                                <<Call("load_event", email_id, TRUE),
                                  Call("generate_quote", email_id, FALSE)>>
                         /\ UNCHANGED quotes_dir
                    ELSE \E written \in WriteOutcomes :
                         /\ written # "written" => CanFail
                         /\ quotes_dir' = FileAfter(quotes_dir, email_id, written, quote_data)
                         /\ pc' = IF written = "written" THEN Done(email_id)
                                  ELSE Failed(email_id)
                         /\ timeline' = Append(timeline,
                                log_activity("QUOTE_CREATE",
                                    IF written = "written" THEN "SUCCESS" ELSE "FAILURE",
                                    email_id))
                         /\ calls' = calls \o
                                <<Call("load_event", email_id, TRUE),
                                  Call("generate_quote", email_id, TRUE),
                                  Call("write_quote", email_id, written = "written")>>
    /\ UNCHANGED <<inbox, events_dir, outbox_dir>>
    /\ UNCHANGED <<coreVars, log_lock>>

\* The end of stage 5 and of main().
FuzzyEndQuoting ==
    /\ AtStage("fuzzy", "quoting")
    /\ pc.todo = {}
    /\ pc' = [pc EXCEPT !.stage = "done"]
    /\ timeline' = timeline \o <<log_activity("QUOTE_GENERATION_END", "INFO", <<>>),
                                 log_activity("WORKFLOW_END", "INFO", <<>>)>>
    /\ UNCHANGED <<inbox, events_dir, outbox_dir, quotes_dir, calls>>
    /\ UNCHANGED <<coreVars, log_lock>>

\* What the language model may answer: a well-formed order, an output with a
\* gap, one that names a product the price list does not have, one without
\* the drafted body, or no answer at all (RuntimeError).
ValidOutput ==
    [sender_name |-> "Ann", sender_email |-> "ann@x.io", subject |-> "Order",
     extracted_items |-> <<[product_name |-> Some("USB Hub"), quantity |-> Some(5)]>>,
     gaps_identified |-> <<>>,
     drafted_acknowledgment_body |-> "Thank you"]

GapOutput ==
    [ValidOutput EXCEPT !.extracted_items = <<[product_name |-> None, quantity |-> Some(2)]>>,
                        !.gaps_identified = <<[type |-> "AMBIGUOUS_PRODUCT"]>>]

HallucinatedOutput ==
    [ValidOutput EXCEPT !.extracted_items =
        <<[product_name |-> Some("Ghost"), quantity |-> Some(5)]>>]

IncompleteOutput == RulesWithout(ValidOutput, {"drafted_acknowledgment_body"})

LlmOutputs == {ValidOutput, GapOutput, HallucinatedOutput, IncompleteOutput}

LlmResponses == LlmOutputs \cup {Raised("RuntimeError")}

\* d.get(k): None when the key is missing.
GetOptional(d, k) == IF HasKey(d, k) THEN Some(d[k]) ELSE None

\* event_data, as the LLM pipeline builds it from the validated output.
LlmEventData(email_id, llm_output) ==
    [email_id |-> email_id,
     sender |-> [name |-> GetOptional(llm_output, "sender_name"),
                 email |-> GetOptional(llm_output, "sender_email")],
     subject |-> GetOptional(llm_output, "subject"),
     extracted_items |-> Get(llm_output, "extracted_items", <<>>),
     gaps_identified |-> Get(llm_output, "gaps_identified", <<>>)]

\* ack_draft, as the LLM pipeline builds it from the validated output.
LlmAckDraft(llm_output) ==
    [recipient_email |-> GetOptional(llm_output, "sender_email"),
     subject |-> <<"Re: ", Get(llm_output, "subject", "Your Inquiry")>>,
     body |-> GetOptional(llm_output, "drafted_acknowledgment_body")]

\* A pipeline that saves and quotes whatever the model answered.
PassesValidationAlways(llm_output) == TRUE

\* Step 3b of the LLM pipeline: nothing is saved for an output that fails
\* the validation.
PassesValidation(llm_output) == validate_llm_output(llm_output, price_list)

\* The calls of one iteration up to the one that ended it: op raised, or it
\* was the last of the iteration (ok).
LlmSteps ==
    <<"read", "get_structured_response", "validate_llm_output", "write_event", "write_ack",
      "generate_quote", "write_quote">>

LlmCalls(email_id, last, ok) ==
    LET n == CHOOSE k \in DOMAIN LlmSteps : LlmSteps[k] = last
    IN  [k \in 1..n |-> Call(LlmSteps[k], email_id, k < n \/ ok)]

\* The entries of one iteration: those of the steps that succeeded, then the
\* entry that ends it.
LlmStepEntries ==
    <<[event_type |-> "LLM_INFERENCE_START", status |-> "INFO"],
      [event_type |-> "LLM_INFERENCE_SUCCESS", status |-> "SUCCESS"],
      [event_type |-> "LLM_VALIDATION", status |-> "SUCCESS"],
      [event_type |-> "PARSING_COMPLETE", status |-> "SUCCESS"],
      [event_type |-> "ACKNOWLEDGMENT_DRAFTED", status |-> "SUCCESS"]>>

LlmEntries(email_id, n, last_type, last_status) ==
    [k \in 1..(n + 1) |->
        IF k <= n
        THEN log_activity(LlmStepEntries[k].event_type, LlmStepEntries[k].status, email_id)
        ELSE log_activity(last_type, last_status, email_id)]

\* The iteration ends with the exception of the step last.
LlmFails(email_file, last, entries) ==
    /\ timeline' = timeline \o
           LlmEntries(Stem(email_file), entries, "PROCESSING_FAILURE", "FAILURE")
    /\ calls' = calls \o LlmCalls(Stem(email_file), last, FALSE)

\* A failed write of the file system, and what it leaves.
WriteFails(email_file, written) ==
    /\ written # "written"
    /\ CanFail
    /\ pc' = Failed(email_file)

\* The loop of the LLM pipeline, one file of the inbox. The first exception
\* ends the iteration.
LlmProcessEmail ==
    /\ AtStage("llm", "parsing")
    /\ \E email_file \in pc.todo :
          LET email_id == Stem(email_file)
          IN  \/ \* the quote file exists
                 /\ Exists(quotes_dir, email_id)
                 /\ pc' = Done(email_file)
                 /\ timeline' = Append(timeline,
                        log_activity("PROCESSING_SKIP", "INFO", email_id))
                 /\ UNCHANGED <<events_dir, outbox_dir, quotes_dir, calls>>
              \/ \* open or read raises
                 /\ ~Exists(quotes_dir, email_id)
                 /\ CanFail
                 /\ pc' = Failed(email_file)
                 /\ timeline' = Append(timeline,
                        log_activity("PROCESSING_FAILURE", "FAILURE", email_id))
                 /\ calls' = calls \o LlmCalls(email_id, "read", FALSE)
                 /\ UNCHANGED <<events_dir, outbox_dir, quotes_dir>>
              \/ \* the provider raises
                 /\ ~Exists(quotes_dir, email_id)
                 /\ \E response \in LlmResponses : IsRaised(response)
                 /\ pc' = Done(email_file)
                 /\ LlmFails(email_file, "get_structured_response", 1)
                 /\ UNCHANGED <<events_dir, outbox_dir, quotes_dir>>
              \/ \* the output fails the validation
                 /\ ~Exists(quotes_dir, email_id)
                 /\ \E llm_output \in LlmOutputs : ~PassesValidation(llm_output)
                 /\ pc' = Done(email_file)
                 /\ LlmFails(email_file, "validate_llm_output", 2)
                 /\ UNCHANGED <<events_dir, outbox_dir, quotes_dir>>
              \/ /\ ~Exists(quotes_dir, email_id)
                 /\ \E llm_output \in LlmOutputs :
                       /\ PassesValidation(llm_output)
                       /\ \E event_data \in {LlmEventData(email_id, llm_output)},
                             ack_draft \in {LlmAckDraft(llm_output)} :
                          \/ \* the event file is not written
                             \E written \in WriteOutcomes :
                                /\ WriteFails(email_file, written)
                                /\ events_dir' = FileAfter(events_dir, email_id, written,
                                                           event_data)
                                /\ LlmFails(email_file, "write_event", 3)
                                /\ UNCHANGED <<outbox_dir, quotes_dir>>
                          \/ \* the acknowledgment is not written
                             \E written \in WriteOutcomes :
                                /\ WriteFails(email_file, written)
                                /\ events_dir' = Put(events_dir, email_id, Some(event_data))
                                /\ outbox_dir' = FileAfter(outbox_dir, email_id, written,
                                                           ack_draft)
                                /\ LlmFails(email_file, "write_ack", 4)
                                /\ UNCHANGED quotes_dir
                          \/ \* generate_quote raises, or the quote is written, or
                             \* its write fails
                             \E quote_data \in {generate_quote(event_data)} :
                                /\ events_dir' = Put(events_dir, email_id, Some(event_data))
                                /\ outbox_dir' = Put(outbox_dir, email_id, Some(ack_draft))
                                /\ \/ /\ IsRaised(quote_data)
                                      /\ pc' = Done(email_file)
                                      /\ LlmFails(email_file, "generate_quote", 5)
                                      /\ UNCHANGED quotes_dir
                                   \/ /\ ~IsRaised(quote_data)
                                      /\ \E written \in WriteOutcomes :
                                            /\ quotes_dir' = FileAfter(quotes_dir, email_id,
                                                                       written, quote_data)
                                            /\ \/ /\ WriteFails(email_file, written)
                                                  /\ LlmFails(email_file, "write_quote", 5)
                                               \/ /\ written = "written"
                                                  /\ pc' = Done(email_file)
                                                  /\ timeline' = timeline \o
                                                         LlmEntries(email_id, 5,
                                                             "QUOTE_GENERATED", "SUCCESS")
                                                  /\ calls' = calls \o
                                                         LlmCalls(email_id, "write_quote", TRUE)
    /\ UNCHANGED inbox
    /\ UNCHANGED <<coreVars, log_lock>>

\* The end of the loop and of main().
LlmEnd ==
    /\ AtStage("llm", "parsing")
    /\ pc.todo = {}
    /\ pc' = [pc EXCEPT !.stage = "done"]
    /\ timeline' = Append(timeline, log_activity("WORKFLOW_END", "INFO", <<>>))
    /\ UNCHANGED <<inbox, events_dir, outbox_dir, quotes_dir, calls>>
    /\ UNCHANGED <<coreVars, log_lock>>

\* main() of the fuzzy pipeline is run a second time, over the inbox and the
\* directories the first run left.
Rerun ==
    /\ AtStage("fuzzy", "done")
    /\ pc.run = "first"
    /\ pc' = Started(pc.pipeline, "second", pc.failures)
    /\ timeline' = timeline \o StartEntries(pc.pipeline)
    /\ calls' = <<>>
    /\ UNCHANGED <<inbox, events_dir, outbox_dir, quotes_dir>>
    /\ UNCHANGED <<coreVars, log_lock>>

InboxFiles == {"a", "b"}

\* Two different messages, or the same message in two files.
Inboxes ==
    {[email_file \in InboxFiles |->
        IF email_file = "a" THEN ScenarioEmailOnLines ELSE second] :
            second \in {ScenarioEmailOnLines, BareEmail}}

\* The scorer of the pipeline runs rates the product name itself and nothing else.
PipelineScorer == (N_ThinkPad_X1 :> [product |-> "ThinkPad X1", score |-> 100])

\* discount_rules.json as shipped, and without its category discounts.
PipelineRules == {ScenarioRules, RulesWithout(ScenarioRules, {"category_discount"})}

\* Configuration is loaded, the modules are constructed, the output
\* directories are empty and main() is at the head of its first loop.
InitPipeline ==
    /\ \E dr \in PipelineRules : Constructed(Catalog, dr)
    /\ fuzzy = PipelineScorer
    /\ email_content = None
    /\ cleaned_body = None
    /\ parsed_event = None
    /\ other_event = None
    /\ quotes = NoCalls
    /\ bulk_call = None
    /\ quantity_call = None
    /\ inbox \in Inboxes
    /\ events_dir = <<>>
    /\ outbox_dir = <<>>
    /\ quotes_dir = <<>>
    /\ calls = <<>>
    /\ log_lock = None
    /\ \E pipeline \in {"fuzzy", "llm"} :
          /\ pc = Started(pipeline, "first", 0)
          /\ timeline = StartEntries(pipeline)

NextPipeline ==
    \/ FuzzyParseEmail
    \/ FuzzyEndParsing
    \/ FuzzyAcknowledge
    \/ FuzzyEndAcknowledging
    \/ FuzzyQuote
    \/ FuzzyEndQuoting
    \/ LlmProcessEmail
    \/ LlmEnd
    \/ Rerun

SpecPipeline == InitPipeline /\ [][NextPipeline]_vars

----------------------------------------------------------------------------
(* Properties of the quote calculator *)

\* The Quotes generate_quote has returned for parsed_event.
Returned == {quotes.this[i] : i \in 1..Len(quotes.this)}

SuccessQuotes == {q \in Returned : ~IsRaised(q) /\ q.status = "success"}

\* C2. Gate property: when the event's gaps_identified is non-empty, every
\* Quote returned for it is pending, its line_items and summary are empty, its
\* quote_id is the event's email_id, its gaps are the event's gaps in the same
\* order, and it has no field besides these and the pending reason.
C2_GateProperty ==
    parsed_event # None /\ parsed_event.gaps_identified # <<>> =>
        \A q \in Returned :
            /\ DOMAIN q = {"quote_id", "status", "pending_reason", "gaps",
                           "line_items", "summary"}
            /\ q.status = "pending"
            /\ q.line_items = <<>>
            /\ DOMAIN q.summary = {}
            /\ q.quote_id = parsed_event.email_id
            /\ q.gaps = parsed_event.gaps_identified

\* A quote was returned for an event with two different gaps whose items would
\* pass the item check.
C2_Witness ==
    /\ parsed_event # None
    /\ Len(parsed_event.gaps_identified) = 2
    /\ parsed_event.gaps_identified[1] # parsed_event.gaps_identified[2]
    /\ _is_quotable(parsed_event.extracted_items)
    /\ parsed_event.email_id = "id2"
    /\ Returned # {}

\* C3. Quotability gate: a Quote has status "success" only if the event has
\* no gaps, at least one item, and every item has a non-null product_name and
\* a strictly positive quantity.
C3_SuccessOnlyIfQuotable ==
    \A q \in SuccessQuotes :
        /\ parsed_event.gaps_identified = <<>>
        /\ parsed_event.extracted_items # <<>>
        /\ \A i \in 1..Len(parsed_event.extracted_items) :
              LET item == parsed_event.extracted_items[i]
              IN  /\ item.product_name # None
                  /\ item.quantity # None
                  /\ item.quantity[1] > 0

\* The bulk and category rates generate_quote applies to a line item.
BulkRateOf(line) == _get_bulk_discount(line.quantity)

CategoryRateOf(line) ==
    Get(discount_rules["category_discount"], price_list[line.product_name].category, 0)

OneMinus(p) == RSub(RInt(1), Percent(p))

Sequential(line) ==
    RMul(RMul(line.subtotal, OneMinus(BulkRateOf(line))), OneMinus(CategoryRateOf(line)))

\* C4. Discount ordering: every line item has subtotal S = unit_price x
\* quantity, final_price = S x (1 - b/100) x (1 - c/100) and
\* total_discount_applied = S - final_price.
C4_DiscountOrdering ==
    \A q \in SuccessQuotes : \A i \in 1..Len(q.line_items) :
        LET line == q.line_items[i]
        IN  /\ line.unit_price = price_list[line.product_name].price
            /\ line.subtotal = RMul(line.unit_price, RInt(line.quantity))
            /\ line.final_price = Sequential(line)
            /\ line.total_discount_applied = RSub(line.subtotal, line.final_price)

\* A line item with both rates non-zero, where the sequential and the additive
\* composition differ.
C4_Witness ==
    \E q \in SuccessQuotes : \E i \in 1..Len(q.line_items) :
        LET line == q.line_items[i]
        IN  /\ BulkRateOf(line) > 0
            /\ CategoryRateOf(line) > 0
            /\ line.final_price #
                  RMul(line.subtotal, OneMinus(BulkRateOf(line) + CategoryRateOf(line)))

\* C5. Bulk discount selection: the rate returned is 0 when no rule has
\* min_quantity <= quantity, and otherwise the discount_percent of a rule
\* whose min_quantity is the largest one that is <= quantity, whatever the
\* order of the list.
C5_BulkSelection ==
    bulk_call # None =>
        LET quantity == bulk_call[1][1]
            rate == bulk_call[1][2]
            rules == discount_rules["bulk_discount"]
            qualifying == {i \in 1..Len(rules) : rules[i].min_quantity <= quantity}
        IN  IF qualifying = {} THEN rate = 0
            ELSE \E i \in qualifying :
                    /\ rate = rules[i].discount_percent
                    /\ \A j \in qualifying : rules[j].min_quantity <= rules[i].min_quantity

\* A call where the rule that applies is not the first qualifying rule of the
\* list as written.
C5_Witness ==
    /\ bulk_call # None
    /\ LET rules == discount_rules["bulk_discount"]
       IN  /\ Len(rules) = 2
           /\ rules[1].min_quantity < rules[2].min_quantity
           /\ rules[2].min_quantity <= bulk_call[1][1]
           /\ rules[1].discount_percent # rules[2].discount_percent
           /\ bulk_call[1][2] = rules[2].discount_percent

\* Sums over the unrounded line-item values.
SumOf(q, field) == RSum([i \in 1..Len(q.line_items) |-> q.line_items[i][field]])

NetOf(q) == RSub(SumOf(q, "subtotal"), SumOf(q, "total_discount_applied"))

TaxOf(q) == RMul(NetOf(q), Percent(discount_rules["tax_rate_percent"]))

\* C6. Summary calculation: in a success Quote the five summary fields are the
\* 2-decimal roundings of the sum of subtotals, the sum of discounts, their
\* difference, the difference x tax_rate_percent/100 and difference + tax,
\* each computed from the unrounded line-item values; the line-item fields
\* hold the unrounded values.
C6_SummaryCalculation ==
    \A q \in SuccessQuotes :
        /\ q.summary.grand_subtotal = Round2(SumOf(q, "subtotal"))
        /\ q.summary.total_discount = Round2(SumOf(q, "total_discount_applied"))
        /\ q.summary.net_total_before_tax = Round2(NetOf(q))
        /\ q.summary.tax_amount = Round2(TaxOf(q))
        /\ q.summary.grand_total = Round2(RAdd(NetOf(q), TaxOf(q)))
        /\ \A i \in 1..Len(q.line_items) :
              LET line == q.line_items[i]
              IN  /\ line.subtotal = RMul(line.unit_price, RInt(line.quantity))
                  /\ line.final_price = Sequential(line)
                  /\ line.total_discount_applied = RSub(line.subtotal, Sequential(line))

\* A success Quote whose line items carry more than two decimals and whose
\* grand total is not the sum of the rounded net total and the rounded tax.
C6_Witness ==
    \E q \in SuccessQuotes :
        /\ \E i \in 1..Len(q.line_items) :
              q.line_items[i].final_price # Round2(q.line_items[i].final_price)
        /\ NetOf(q) # Round2(NetOf(q))
        /\ q.summary.grand_total # RAdd(q.summary.net_total_before_tax, q.summary.tax_amount)

AllSame(s) == \A i, j \in 1..Len(s) : s[i] = s[j]

----------------------------------------------------------------------------
(* Properties of parse_quantity *)

\* The number words that occur in text as whole words.
Occurring(text) == {i \in DOMAIN word_to_num : HasWholeWord(text, word_to_num[i][1])}

\* text[i..j] is a run of digits with no word character on either side.
Standalone(text, i, j) ==
    /\ i <= j
    /\ \A k \in i..j : IsDigit(text[k])
    /\ i = 1 \/ ~IsWordChar(text[i - 1])
    /\ j = Len(text) \/ ~IsWordChar(text[j + 1])

StandaloneRuns(text) ==
    {r \in (1..Len(text)) \X (1..Len(text)) : Standalone(text, r[1], r[2])}

\* C9. Number-word precedence: when a number word occurs as a whole word,
\* parse_quantity returns the value of an occurring word that no occurring
\* word exceeds in length; when none occurs it returns the first standalone
\* digit sequence as an integer; when neither occurs it returns null. On
\* "please send a dozen units" it returns 12.
C9_NumberWordPrecedence ==
    quantity_call # None =>
        LET text == quantity_call[1][1]
            result == quantity_call[1][2]
        IN  /\ IF Occurring(text) # {}
               THEN \E i \in Occurring(text) :
                       /\ result = Some(word_to_num[i][2])
                       /\ \A j \in Occurring(text) :
                             Len(word_to_num[j][1]) <= Len(word_to_num[i][1])
               ELSE IF StandaloneRuns(text) # {}
               THEN \E r \in StandaloneRuns(text) :
                       /\ \A o \in StandaloneRuns(text) : r[1] <= o[1]
                       /\ result = Some(IntOf(SubSeq(text, r[1], r[2])))
               ELSE result = None
            /\ text = PleaseSendADozenUnits => result = Some(12)

\* A call on a text in which a shorter number word and a digit sequence come
\* before the longest number word, whose value is returned.
C9_Witness ==
    /\ quantity_call # None
    /\ quantity_call[1][1] = JoinWords(<<<<"5">>, W_two, W_dozen>>)
    /\ quantity_call[1][2] = Some(12)

----------------------------------------------------------------------------
(* Properties of parse_email followed by generate_quote *)

Items == parsed_event.extracted_items

GapsIdentified == parsed_event.gaps_identified

GapsOfType(type) == {i \in DOMAIN GapsIdentified : GapsIdentified[i].type = type}

\* The scorer rates "ThinkPad X1" as an exact match of the product and every
\* other phrase lower.
ScenarioScorer ==
    /\ N_ThinkPad_X1 \in DOMAIN fuzzy
    /\ fuzzy[N_ThinkPad_X1] = [product |-> "ThinkPad X1", score |-> 100]
    /\ \A t \in DOMAIN fuzzy \ {N_ThinkPad_X1} : fuzzy[t].score < 100

ScenarioSummary ==
    [grand_subtotal |-> RInt(5000),
     total_discount |-> RInt(725),
     net_total_before_tax |-> RInt(4275),
     tax_amount |-> Rat(42750, 100),
     grand_total |-> Rat(470250, 100)]

\* C1. End-to-end scenario: with the scenario Catalog and DiscountRules,
\* parse_email on "Hi, I would like to buy 5 ThinkPad X1 laptops please.
\* Thanks, John" yields exactly one item, ThinkPad X1 with quantity 5, and no
\* gaps, and generate_quote on that event returns status "success" with
\* final_price 4275 and summary 5000.00 / 725.00 / 4275.00 / 427.50 / 4702.50.
C1_EndToEndScenario ==
    /\ email_content = Some(ScenarioEmail)
    /\ price_list = ScenarioCatalog
    /\ discount_rules = ScenarioRules
    /\ ScenarioScorer
    /\ parsed_event # None
    => /\ Len(Items) = 1
       /\ Items[1].product_name = Some("ThinkPad X1")
       /\ Items[1].quantity = Some(5)
       /\ GapsIdentified = <<>>
       /\ \A q \in Returned :
             /\ q.status = "success"
             /\ Len(q.line_items) = 1
             /\ q.line_items[1].final_price = RInt(4275)
             /\ q.summary = ScenarioSummary

\* Two matches overlap when they share a character position.
Overlap(m1, m2) == Positions(m1) \cap Positions(m2) # {}

\* C8. Overlap resolution: when the kept candidates are two, their spans
\* overlap and they score 95 and 80, the item list holds exactly the
\* 95-scoring match, and the 80-scoring one adds neither an item nor a gap.
C8_OverlapResolution ==
    parsed_event # None =>
        LET kept == ScoredMatches(cleaned_body[1])
        IN  /\ Len(kept) = 2
            /\ Overlap(kept[1], kept[2])
            /\ {kept[1].score, kept[2].score} = {95, 80}
            => LET best == IF kept[1].score = 95 THEN kept[1] ELSE kept[2]
               IN  /\ Len(Items) = 1
                   /\ Items[1].mentioned_as = best.text
                   /\ Items[1].product_name = Some(best.product)
                   /\ GapsOfType("AMBIGUOUS_PRODUCT") = {}

\* A parsed message with exactly two kept candidates, overlapping, scoring 95
\* and 80, where the 80-scoring one comes first among the n-grams.
C8_Witness ==
    /\ parsed_event # None
    /\ LET kept == ScoredMatches(cleaned_body[1])
       IN  /\ Len(kept) = 2
           /\ Overlap(kept[1], kept[2])
           /\ kept[1].score = 80
           /\ kept[2].score = 95

\* body[a:b] is an n-gram of the body: it starts and ends at word ends and
\* holds at most max_n words.
IsNgram(text, a, b) ==
    /\ a < b
    /\ ~IsSpace(text[a + 1]) /\ ~IsSpace(text[b])
    /\ a = 0 \/ IsSpace(text[a])
    /\ b = Len(text) \/ IsSpace(text[b + 1])
    /\ Len(Tokens(Slice(text, a, b))) <= max_n

\* Some n-gram of at least 4 characters scores at least 75.
SomeNgramScores(text) ==
    \E t \in DOMAIN fuzzy :
        /\ fuzzy[t].score >= 75
        /\ Len(t) >= 4
        /\ \E a \in 0..(Len(text) - Len(t)) :
              /\ Slice(text, a, a + Len(t)) = t
              /\ IsNgram(text, a, a + Len(t))

\* C10. Unknown product: the event has an UNKNOWN_PRODUCT gap if and only if
\* no n-gram of the body scores 75 or more; it is then the only gap, the item
\* list is empty and the Quote of the event is pending. No event has both an
\* empty item list and an empty gap list.
C10_UnknownProduct ==
    parsed_event # None =>
        /\ GapsOfType("UNKNOWN_PRODUCT") # {} <=> ~SomeNgramScores(cleaned_body[1])
        /\ GapsOfType("UNKNOWN_PRODUCT") # {} =>
              /\ Len(GapsIdentified) = 1
              /\ Items = <<>>
              /\ \A q \in Returned : q.status = "pending"
        /\ ~(Items = <<>> /\ GapsIdentified = <<>>)

\* A body with words in it, none of which scores, parsed and quoted.
C10_Witness ==
    /\ parsed_event # None
    /\ cleaned_body[1] # <<>>
    /\ GapsIdentified = <<UnknownProductGap>>
    /\ Returned # {}

\* The text occurs in the body as an n-gram.
OccursAsNgram(t, text) ==
    \E a \in 0..(Len(text) - Len(t)) :
        /\ Slice(text, a, a + Len(t)) = t
        /\ IsNgram(text, a, a + Len(t))

ItemsWithoutName == {i \in DOMAIN Items : Items[i].product_name = None}

\* C11. Confidence tiers: every item comes from an n-gram of at least 4
\* characters that scores 75 or more; its product_name is the scorer's best
\* product, a key of the price list, exactly when the score is 90 or more, and
\* null exactly when the score is from 75 to 89; and there are as many
\* AMBIGUOUS_PRODUCT gaps as items with a null product_name.
C11_ConfidenceTiers ==
    parsed_event # None =>
        /\ \A i \in DOMAIN Items :
              LET t == Items[i].mentioned_as
              IN  /\ Len(t) >= 4
                  /\ OccursAsNgram(t, cleaned_body[1])
                  /\ t \in DOMAIN fuzzy
                  /\ fuzzy[t].score >= 75
                  /\ fuzzy[t].product \in DOMAIN price_list
                  /\ Items[i].product_name = Some(fuzzy[t].product) <=> fuzzy[t].score >= 90
                  /\ Items[i].product_name = None <=> fuzzy[t].score < 90
        /\ Cardinality(GapsOfType("AMBIGUOUS_PRODUCT")) = Cardinality(ItemsWithoutName)

\* An event with an item in each tier, the ambiguous one with a quantity.
C11_Witness ==
    /\ parsed_event # None
    /\ \E i \in ItemsWithoutName : Items[i].quantity # None
    /\ \E i \in DOMAIN Items : Items[i].product_name # None

NamedItems == {i \in DOMAIN Items : Items[i].product_name # None}

\* C12. MISSING_QUANTITY emission: the MISSING_QUANTITY gaps are one for each
\* item of score 90 or more whose quantity is null, each naming that item's
\* product; so there is none exactly when every such item has a quantity
\* that is not null.
C12_MissingQuantity ==
    parsed_event # None =>
        LET missing == GapsOfType("MISSING_QUANTITY")
            unquantified == {i \in NamedItems : Items[i].quantity = None}
        IN  /\ Cardinality(missing) = Cardinality(unquantified)
            /\ \A g \in missing :
                  \E i \in unquantified : GapsIdentified[g].details = Items[i].product_name
            /\ missing = {} <=> \A i \in NamedItems : Items[i].quantity # None

\* Candidate i comes before candidate j once the kept candidates are sorted
\* descending by (score, text length); the sort keeps equal keys in the order
\* of the n-grams.
Precedes(kept, i, j) ==
    \/ kept[i].score > kept[j].score
    \/ kept[i].score = kept[j].score /\ kept[i].length > kept[j].length
    \/ kept[i].score = kept[j].score /\ kept[i].length = kept[j].length /\ i < j

\* The items are the candidates of accepted, in the sorted order.
ItemsAre(kept, accepted) ==
    /\ Len(Items) = Cardinality(accepted)
    /\ \A i \in accepted :
          LET rank == Cardinality({j \in accepted : Precedes(kept, j, i)}) + 1
          IN  /\ Items[rank].mentioned_as = kept[i].text
              /\ Items[rank].confidence.product = Rat(kept[i].score, 100)

\* C16. Greedy overlap resolution: the matches extract_items accepts are
\* pairwise disjoint, and every kept candidate that is not accepted overlaps
\* an accepted candidate that precedes it in the order descending by
\* (score, text length).
C16_GreedyOverlapResolution ==
    parsed_event # None =>
        LET kept == ScoredMatches(cleaned_body[1])
        IN  \E accepted \in SUBSET DOMAIN kept :
                /\ ItemsAre(kept, accepted)
                /\ \A i, j \in accepted : i # j => ~Overlap(kept[i], kept[j])
                /\ \A i \in DOMAIN kept \ accepted :
                      \E j \in accepted : Precedes(kept, j, i) /\ Overlap(kept[i], kept[j])

\* A parsed message where one candidate was accepted and an earlier n-gram,
\* which overlaps it, was not.
C16_Witness ==
    /\ parsed_event # None
    /\ LET kept == ScoredMatches(cleaned_body[1])
       IN  /\ Len(Items) >= 1
           /\ \E i, j \in DOMAIN kept :
                 /\ i < j
                 /\ Overlap(kept[i], kept[j])
                 /\ Precedes(kept, j, i)
                 /\ Items[1].mentioned_as = kept[j].text

----------------------------------------------------------------------------
(* Properties of the constructors *)

\* C13. Configuration errors are raised at construction: EmailParser raises
\* on an empty price list; QuoteGenerator raises on an empty price list, on
\* empty discount rules and on discount rules without "bulk_discount" or
\* "category_discount"; and generate_quote of a constructed QuoteGenerator
\* never raises.
C13_ConfigurationErrors ==
    /\ DOMAIN config.price_list = {} => raised.parser # None
    /\ \/ DOMAIN config.price_list = {}
       \/ DOMAIN config.discount_rules = {}
       \/ ~HasKey(config.discount_rules, "bulk_discount")
       \/ ~HasKey(config.discount_rules, "category_discount")
       => raised.generator # None
    /\ \A i \in DOMAIN quotes.this : ~IsRaised(quotes.this[i])

----------------------------------------------------------------------------
(* Properties of parse_sender *)

\* The lines after the first sign-off that are not blank, each trimmed of
\* white space and then of commas, hyphens and spaces.
TrimmedSignatureLines(content) ==
    LET lines == SplitLines(AfterSignOff(content))
        kept == SelectIndices(lines, {i \in DOMAIN lines : Strip(lines[i]) # <<>>}, 1)
    IN  [i \in DOMAIN kept |-> StripChars(Strip(kept[i]), {",", "-", " "})]

NoAddressCharacter(line) == \A k \in DOMAIN line : line[k] \notin {"@", "<", ">"}

\* The name is the header's when it gives one; otherwise, with a sign-off,
\* the last of the trimmed lines that Qualifies, null when none does.
LastMatchPolicy(Qualifies(_)) ==
    parsed_event # None =>
        LET content == email_content[1]
            header == SenderOfHeader(content)
            name == parsed_event.sender.name
            lines == TrimmedSignatureLines(content)
            qualifying == {i \in DOMAIN lines : Qualifies(lines[i])}
        IN  /\ header.name # None => name = header.name
            /\ header.name = None /\ FirstSignOff(content) # 0 =>
                  IF qualifying = {} THEN name = None
                  ELSE name = Some(lines[Max(qualifying)])

OneOrTwoWords(line) == Len(Tokens(line)) \in 1..2 /\ NoAddressCharacter(line)

AtMostTwoWordsOfTwoCharacters(line) ==
    Len(line) >= 2 /\ Len(Tokens(line)) <= 2 /\ NoAddressCharacter(line)

----------------------------------------------------------------------------
(* Properties of the pipelines *)

\* The positions in calls of the calls of op, and of those that returned.
CallsOf(op) == {k \in DOMAIN calls : calls[k].op = op}

Returned_(op) == {k \in CallsOf(op) : calls[k].ok}

\* The calls of the iteration that was the last to call anything: the files
\* are as that iteration left them.
LastCalls(op) == {k \in CallsOf(op) : k >= Len(calls) - 1}

LastReturned(op) == {k \in LastCalls(op) : calls[k].ok}

\* The ids of the messages of the inbox whose file could not be read in this run.
UnreadIds ==
    {generate_email_id(inbox[email_file]) : email_file \in
        {f \in DOMAIN inbox : \E k \in CallsOf("read") :
            ~calls[k].ok /\ calls[k].email_id = FileRef(f)}}

\* The extraction of the message failed in this run: the fuzzy pipeline could
\* not read it or could not write its event, and no extraction of it
\* completed; the LLM pipeline got no answer, or one that fails the validation.
ExtractionFailed(email_id) ==
    IF pc.pipeline = "fuzzy"
    THEN /\ \/ email_id \in UnreadIds
            \/ \E k \in CallsOf("write_event") : ~calls[k].ok /\ calls[k].email_id = email_id
         /\ \A k \in Returned_("write_event") : calls[k].email_id # email_id
    ELSE \E k \in DOMAIN calls :
            /\ calls[k].email_id = email_id
            /\ calls[k].op \in {"read", "get_structured_response", "validate_llm_output",
                                 "write_event"}
            /\ ~calls[k].ok

\* The event file of the message holds what an extraction produced: a whole
\* event with the id of the message, in the fuzzy pipeline the id of a message
\* of the inbox, in the LLM pipeline an event that names only products of the
\* price list.
EventProduced(email_id) ==
    /\ email_id \in DOMAIN events_dir
    /\ events_dir[email_id] # None
    /\ events_dir[email_id][1].email_id = email_id
    /\ IF pc.pipeline = "fuzzy"
       THEN \E email_file \in DOMAIN inbox : generate_email_id(inbox[email_file]) = email_id
       ELSE \A i \in DOMAIN events_dir[email_id][1].extracted_items :
               LET product_name == events_dir[email_id][1].extracted_items[i].product_name
               IN  TruthyStr(product_name) => product_name[1] \in DOMAIN price_list

\* generate_quote is called for a message only after its event was produced,
\* and in the LLM pipeline only after validate_llm_output returned true for it
\* and its event was written, earlier in the same iteration.
QuotedAfterExtraction ==
    \A k \in LastCalls("generate_quote") :
        /\ EventProduced(calls[k].email_id)
        /\ pc.pipeline = "llm" =>
              /\ \E j \in 1..(k - 1) :
                    calls[j] = Call("validate_llm_output", calls[k].email_id, TRUE)
              /\ \E j \in 1..(k - 1) :
                    calls[j] = Call("write_event", calls[k].email_id, TRUE)

\* C15 as stated: within-message ordering, and no quote file is written in a
\* run for a message whose extraction failed in that run.
C15_WithinMessageOrdering ==
    /\ QuotedAfterExtraction
    /\ \A k \in Returned_("write_quote") : ~ExtractionFailed(calls[k].email_id)

\* C15, amended: generate_quote is invoked for a message only after its event
\* was produced (and, in the LLM pipeline, validated in that run); a quote
\* file is written only from the event file of the message, which the fuzzy
\* pipeline may have produced in an earlier run; the LLM pipeline writes no
\* quote for a message whose extraction or validation failed in that run.
C15_QuoteOnlyFromProducedEvent ==
    /\ QuotedAfterExtraction
    /\ \A k \in LastReturned("write_quote") :
          /\ EventProduced(calls[k].email_id)
          /\ quotes_dir[calls[k].email_id] =
                Some(generate_quote(events_dir[calls[k].email_id][1]))
          /\ pc.pipeline = "llm" => ~ExtractionFailed(calls[k].email_id)

\* A second run of the fuzzy pipeline failed to read a message and then wrote
\* the quote of that message from the event file the first run left.
C15_Witness ==
    /\ pc.pipeline = "fuzzy"
    /\ pc.run = "second"
    /\ \E k \in Returned_("write_quote") :
          /\ calls[k].email_id \in UnreadIds
          /\ \A j \in CallsOf("write_event") : calls[j].email_id # calls[k].email_id

----------------------------------------------------------------------------
(* Properties of the line items of a Quote *)

\* C17. Every success Quote has one line item for each extracted item of
\* its event, in the same order, and so never an empty list of line items.
C17_OneLineItemPerItem ==
    \A q \in SuccessQuotes :
        /\ q.line_items # <<>>
        /\ Len(q.line_items) = Len(parsed_event.extracted_items)
        /\ \A i \in DOMAIN q.line_items :
              /\ Some(q.line_items[i].product_name) = parsed_event.extracted_items[i].product_name
              /\ Some(q.line_items[i].quantity) = parsed_event.extracted_items[i].quantity

----------------------------------------------------------------------------
(* Properties of the quantities of the extracted items *)

\* C18. Quantity well-formedness: the quantity of every extracted item is
\* null or a strictly positive integer, and confidence.quantity is 1.0 exactly
\* when the quantity is non-null and 0.0 exactly when it is null.
C18_QuantityWellFormed ==
    parsed_event # None =>
        \A i \in DOMAIN Items :
            /\ Items[i].quantity = None \/ Items[i].quantity[1] > 0
            /\ Items[i].confidence.quantity = RInt(1) <=> Items[i].quantity # None
            /\ Items[i].confidence.quantity = RInt(0) <=> Items[i].quantity = None

\* The accepted matches that end before match i starts.
EarlierMentions(accepted, i) ==
    {j \in DOMAIN accepted : accepted[j].span[2] <= accepted[i].span[1]}

\* The text between the end of the nearest accepted match before match i and
\* the start of match i.
OwnText(body, accepted, i) ==
    Slice(body, Max({accepted[j].span[2] : j \in EarlierMentions(accepted, i)}),
          accepted[i].span[1])

\* C19 as stated: the quantity of a match that follows another accepted match
\* is parsed only from the text between the end of the nearest preceding
\* accepted match and its own start.
C19_QuantityFromOwnText ==
    parsed_event # None =>
        LET accepted == FinalMatches(cleaned_body[1])
        IN  \A i \in DOMAIN accepted :
                EarlierMentions(accepted, i) # {} =>
                    Items[i].quantity = parse_quantity(OwnText(cleaned_body[1], accepted, i))

\* C19, amended: the quantity of every accepted match is parsed from the 50
\* characters of the body before its start (all of them when fewer precede
\* it), whether or not earlier accepted matches lie in that window.
C19_QuantityFromWindow ==
    parsed_event # None =>
        LET accepted == FinalMatches(cleaned_body[1])
        IN  /\ Len(Items) = Len(accepted)
            /\ \A i \in DOMAIN accepted :
                  LET start == accepted[i].span[1]
                  IN  Items[i].quantity =
                          parse_quantity(Slice(cleaned_body[1],
                                               IF start > 50 THEN start - 50 ELSE 0, start))

\* A parsed message with two accepted matches where the later one got a
\* quantity that the text between the two does not give: the number before
\* the earlier mention was used again.
C19_Witness ==
    /\ parsed_event # None
    /\ LET accepted == FinalMatches(cleaned_body[1])
       IN  \E i \in DOMAIN accepted :
              /\ EarlierMentions(accepted, i) # {}
              /\ Items[i].quantity # None
              /\ Items[i].quantity # parse_quantity(OwnText(cleaned_body[1], accepted, i))
              /\ \E j \in EarlierMentions(accepted, i) : Items[j].quantity = Items[i].quantity

----------------------------------------------------------------------------
(* Properties of the reported summary *)

\* What the reported net total exceeds the reported subtotal less the reported
\* discount by, and the reported grand total the reported net total plus tax.
NetGap(summary) ==
    RSub(summary.net_total_before_tax, RSub(summary.grand_subtotal, summary.total_discount))

TotalGap(summary) ==
    RSub(summary.grand_total, RAdd(summary.net_total_before_tax, summary.tax_amount))

\* The amount is at most one cent, up or down.
AtMostOneCent(x) == Abs(x[1]) * 100 <= x[2]

\* C20 as stated: in every success Quote the reported summary fields add up
\* exactly: the net total is the subtotal less the discount and the grand
\* total is the net total plus the tax.
C20_SummaryAddsUp ==
    \A q \in SuccessQuotes :
        /\ NetGap(q.summary) = RInt(0)
        /\ TotalGap(q.summary) = RInt(0)

\* C20, amended: in every success Quote the reported summary fields add up to
\* within one cent: each field is rounded on its own from unrounded values.
C20_SummaryAddsUpToACent ==
    \A q \in SuccessQuotes :
        /\ AtMostOneCent(NetGap(q.summary))
        /\ AtMostOneCent(TotalGap(q.summary))

\* A success Quote whose reported grand total is one cent off the sum of the
\* reported net total and tax.
C20_Witness ==
    \E q \in SuccessQuotes :
        /\ q.line_items # <<>>
        /\ NetGap(q.summary) = RInt(0)
        /\ TotalGap(q.summary) \in {Rat(1, 100), Rat(-1, 100)}

----------------------------------------------------------------------------
(* Properties of the idempotency checks of the fuzzy pipeline *)

\* The three directories of artifacts.
ArtifactDirs == <<events_dir, outbox_dir, quotes_dir>>

\* A step leaves every file of dir as it is.
KeepsFilesOf(dir, dir_after) ==
    \A name \in DOMAIN dir : name \in DOMAIN dir_after /\ dir_after[name] = dir[name]

\* A step of the fuzzy pipeline overwrites no existing event, acknowledgment
\* or quote file.
NoOverwrite ==
    pc.pipeline = "fuzzy" =>
        /\ KeepsFilesOf(events_dir, events_dir')
        /\ KeepsFilesOf(outbox_dir, outbox_dir')
        /\ KeepsFilesOf(quotes_dir, quotes_dir')

\* A step of the second run writes no event, acknowledgment or quote file.
SecondRunWritesNothing ==
    (pc.pipeline = "fuzzy" /\ pc.run = "second") => ArtifactDirs' = ArtifactDirs

\* Inbox files of identical content have one email_id, and a run writes the
\* event of an email_id at most once.
OneEventPerContent ==
    pc.pipeline = "fuzzy" =>
        /\ \A f, g \in DOMAIN inbox :
              inbox[f] = inbox[g] => generate_email_id(inbox[f]) = generate_email_id(inbox[g])
        /\ DOMAIN events_dir \subseteq {generate_email_id(inbox[f]) : f \in DOMAIN inbox}
        /\ \A j, k \in Returned_("write_event") : calls[j].email_id = calls[k].email_id => j = k

----------------------------------------------------------------------------
(* Properties of the failure handling of the pipelines *)

\* One run of main(), of either pipeline.
NextRun ==
    \/ FuzzyParseEmail
    \/ FuzzyEndParsing
    \/ FuzzyAcknowledge
    \/ FuzzyEndAcknowledging
    \/ FuzzyQuote
    \/ FuzzyEndQuoting
    \/ LlmProcessEmail
    \/ LlmEnd

\* main() has not returned: a loop with a file left takes it, and a loop with
\* none ends, so a step of the run is enabled exactly when Running holds.
Running == pc.stage # "done"

\* main() is a sequential program that keeps running until it returns: weak
\* fairness of NextRun, with Running for ENABLED <<NextRun>>_vars, and of the
\* ends of the loops.
SpecRun ==
    /\ InitPipeline
    /\ [][NextRun]_vars
    /\ []<>(~Running) \/ []<><<NextRun>>_vars
    /\ WF_vars(FuzzyEndParsing \/ FuzzyEndAcknowledging \/ FuzzyEndQuoting \/ LlmEnd)

\* The entries that open a loop over the messages, and those that close the
\* iteration of one message.
LoopHeads ==
    {"EMAIL_PROCESSING_START", "ACK_GENERATION_START", "QUOTE_GENERATION_START", "SETUP"}

IterationEnds ==
    {"EMAIL_PROCESSING_SKIP", "EMAIL_PARSE", "ACK_GENERATION_SKIP", "ACK_DRAFT_CREATE",
     "QUOTE_GENERATION_SKIP", "QUOTE_CREATE", "PROCESSING_SKIP", "PROCESSING_FAILURE",
     "QUOTE_GENERATED"}

\* The position in the timeline of the last entry of one of the types.
LastOf(types) ==
    LET at == {k \in DOMAIN timeline : timeline[k].event_type \in types}
    IN  IF at = {} THEN 0 ELSE CHOOSE k \in at : \A j \in at : j <= k

\* The files the current loop goes over.
Listing ==
    IF pc.pipeline = "fuzzy" /\ pc.stage # "parsing" THEN DOMAIN events_dir ELSE DOMAIN inbox

\* Every file of the listing that the loop has left behind has the entry that
\* closes its iteration, whether or not an earlier file failed.
EveryMessageProcessed ==
    LET head == LastOf(LoopHeads)
    IN  Cardinality({k \in DOMAIN timeline : k > head /\ timeline[k].event_type \in IterationEnds})
            = Cardinality(Listing) - Cardinality(pc.todo)

\* Every call of this run that raised is logged as a FAILURE entry of this run.
EveryFailureLogged ==
    LET start == LastOf({"WORKFLOW_START"})
    IN  Cardinality({k \in DOMAIN calls : ~calls[k].ok})
            = Cardinality({k \in DOMAIN timeline : k > start /\ timeline[k].status = "FAILURE"})

\* The run has written its last entry, WORKFLOW_END, with no file left.
RunEnded ==
    /\ pc.stage = "done"
    /\ pc.todo = {}
    /\ timeline[Len(timeline)] = log_activity("WORKFLOW_END", "INFO", <<>>)

\* C22. Once the modules are constructed, an exception raised for one message
\* in any stage is caught and logged as a FAILURE entry, every other message
\* of the listing is still processed in that stage, and the run reaches the
\* WORKFLOW_END entry.
C22_FailureIsolation ==
    /\ [](EveryFailureLogged /\ EveryMessageProcessed)
    /\ Running ~> RunEnded

\* A run ended after the first message of a stage failed and the second was
\* still processed.
C22_Witness ==
    /\ RunEnded
    /\ pc.failures > 0
    /\ \E k \in DOMAIN timeline :
          /\ k < Len(timeline)
          /\ timeline[k].status = "FAILURE"
          /\ timeline[k + 1].status = "SUCCESS"
          /\ timeline[k + 1].event_type \in IterationEnds

----------------------------------------------------------------------------
(* Properties of the artifacts of the LLM pipeline *)

\* The artifacts of a message that exist as files.
ArtifactsOf(email_id) ==
    {dir \in {"event", "ack", "quote"} :
        \/ dir = "event" /\ Exists(events_dir, email_id)
        \/ dir = "ack" /\ Exists(outbox_dir, email_id)
        \/ dir = "quote" /\ Exists(quotes_dir, email_id)}

\* The iteration of the message logged QUOTE_GENERATED.
QuoteGenerated(email_id) ==
    \E k \in DOMAIN timeline : timeline[k] = log_activity("QUOTE_GENERATED", "SUCCESS", email_id)

\* C23 as stated: in the LLM pipeline, started on empty output directories,
\* every message of the inbox has all three artifacts or none, after every
\* iteration and so at the end of the run.
C23_AllOrNothing ==
    pc.pipeline = "llm" =>
        \A email_file \in DOMAIN inbox :
            ArtifactsOf(Stem(email_file)) \in {{}, {"event", "ack", "quote"}}

\* C23, amended: every message has the artifacts of the steps that succeeded
\* for it, in the order they are written: none, the event, the event and the
\* acknowledgment, or all three. A quote file never exists without a whole
\* acknowledgment and a whole event, and a message whose iteration logged
\* QUOTE_GENERATED has all three, whole.
C23_ArtifactsInOrder ==
    pc.pipeline = "llm" =>
        \A email_file \in DOMAIN inbox :
            LET email_id == Stem(email_file)
            IN  /\ ArtifactsOf(email_id) \in
                      {{}, {"event"}, {"event", "ack"}, {"event", "ack", "quote"}}
                /\ "ack" \in ArtifactsOf(email_id) => events_dir[email_id] # None
                /\ "quote" \in ArtifactsOf(email_id) => outbox_dir[email_id] # None
                /\ QuoteGenerated(email_id) =>
                      /\ ArtifactsOf(email_id) = {"event", "ack", "quote"}
                      /\ quotes_dir[email_id] # None

\* The run ended with all three artifacts for one message and, for the other,
\* whose generate_quote raised, the event and the acknowledgment without a quote.
C23_Witness ==
    /\ AtStage("llm", "done")
    /\ \E email_file \in DOMAIN inbox :
          /\ QuoteGenerated(Stem(email_file))
          /\ ArtifactsOf(Stem(email_file)) = {"event", "ack", "quote"}
    /\ \E k \in DOMAIN calls :
          /\ calls[k].op = "generate_quote"
          /\ ~calls[k].ok
          /\ ArtifactsOf(calls[k].email_id) = {"event", "ack"}

----------------------------------------------------------------------------
(* log_activity called from several threads of one process *)

\* Calls of log_activity a thread makes.
MaxLogCalls == 2

Threads == {"t1", "t2"}

\* What a call appended to activity.jsonl: the whole line of its entry, or
\* the part of it that reached the file before the write failed.
Line(entry, complete) == [entry |-> entry, complete |-> complete]

\* The position of thread t after a step of its call.
At(t, at) == [pc EXCEPT ![t].at = at]

\* The thread is inside the with log_lock block.
InBlock(t) == pc[t].at \in {"open", "write", "except", "exit"}

\* log_activity is called: the entry is built, before the lock is asked for.
\* The entry names the thread and the number of its call.
BuildEntry(t) ==
    /\ pc[t].at = "idle"
    /\ pc[t].n < MaxLogCalls
    /\ pc' = [pc EXCEPT ![t] = [at |-> "acquire", n |-> @.n + 1, raised |-> FALSE,
                                entry |-> log_activity("EMAIL_PARSE", "SUCCESS", <<t, @.n + 1>>)]]
    /\ UNCHANGED <<timeline, log_lock, calls>>

\* A lock that lets every thread in.
AcquireLockUnguarded(t) ==
    /\ pc[t].at = "acquire"
    /\ log_lock' = Some(t)
    /\ pc' = At(t, "open")
    /\ UNCHANGED <<timeline, calls>>

\* with log_lock: the thread goes on when the lock is free, and takes it.
AcquireLock(t) ==
    /\ pc[t].at = "acquire"
    /\ log_lock = None
    /\ log_lock' = Some(t)
    /\ pc' = At(t, "open")
    /\ UNCHANGED <<timeline, calls>>

\* open(log_file_path, 'a'): the file is opened for appending, or IOError.
OpenLog(t) ==
    /\ pc[t].at = "open"
    /\ \/ pc' = At(t, "write")
       \/ pc' = [pc EXCEPT ![t].at = "except", ![t].raised = TRUE]
    /\ UNCHANGED <<timeline, log_lock, calls>>

\* f.write(json.dumps(log_entry) + '\n') and the close of the file: the whole
\* line is appended, or IOError with nothing or a part of the line appended.
WriteLine(t) ==
    /\ pc[t].at = "write"
    /\ \/ /\ timeline' = Append(timeline, Line(pc[t].entry, TRUE))
          /\ pc' = At(t, "exit")
       \/ /\ \/ timeline' = Append(timeline, Line(pc[t].entry, FALSE))
             \/ UNCHANGED timeline
          /\ pc' = [pc EXCEPT ![t].at = "except", ![t].raised = TRUE]
    /\ UNCHANGED <<log_lock, calls>>

\* except IOError: the error is printed and the call goes on to return.
HandleIOError(t) ==
    /\ pc[t].at = "except"
    /\ pc' = At(t, "exit")
    /\ UNCHANGED <<timeline, log_lock, calls>>

\* The with block is left: the lock is released and log_activity returns.
ReleaseLock(t) ==
    /\ pc[t].at = "exit"
    /\ log_lock' = None
    /\ pc' = At(t, "idle")
    /\ calls' = Append(calls, Call("log_activity", <<t, pc[t].n>>, ~pc[t].raised))
    /\ UNCHANGED timeline

\* What log_activity does not touch.
otherVars == <<coreVars, inbox, events_dir, outbox_dir, quotes_dir>>

\* A step of a call that has been made.
CallStep(t) ==
    /\ AcquireLock(t) \/ OpenLog(t) \/ WriteLine(t) \/ HandleIOError(t) \/ ReleaseLock(t)
    /\ UNCHANGED otherVars

\* No thread has called yet, the lock is free and the log is empty.
InitLog ==
    /\ Constructed(Catalog, ScenarioRules)
    /\ fuzzy = PipelineScorer
    /\ email_content = None
    /\ cleaned_body = None
    /\ parsed_event = None
    /\ other_event = None
    /\ quotes = NoCalls
    /\ bulk_call = None
    /\ quantity_call = None
    /\ inbox = <<>>
    /\ events_dir = <<>>
    /\ outbox_dir = <<>>
    /\ quotes_dir = <<>>
    /\ timeline = <<>>
    /\ calls = <<>>
    /\ log_lock = None
    /\ pc = [t \in Threads |-> [at |-> "idle", n |-> 0, raised |-> FALSE, entry |-> None]]

NextLog ==
    /\ \E t \in Threads :
          \/ BuildEntry(t)
          \/ AcquireLock(t)
          \/ OpenLog(t)
          \/ WriteLine(t)
          \/ HandleIOError(t)
          \/ ReleaseLock(t)
    /\ UNCHANGED otherVars

\* The scheduler runs every thread that can take a step; nothing makes a
\* thread call log_activity.
SpecLog == InitLog /\ [][NextLog]_vars /\ \A t \in Threads : WF_vars(CallStep(t))

----------------------------------------------------------------------------
(* Properties of log_activity under concurrent calls *)

\* Only the thread that holds log_lock is inside the with block.
MutualExclusion ==
    \A t \in Threads : InBlock(t) => log_lock = Some(t)

\* The positions in the log of what the call appended.
AppendedBy(about) == {k \in DOMAIN timeline : timeline[k].entry.about = about}

\* A call that returned without an IOError appended exactly one whole line;
\* one that met an IOError appended no whole line, and at most a part of one.
OneLinePerCall ==
    /\ \A k \in DOMAIN calls :
          /\ Cardinality(AppendedBy(calls[k].email_id)) <= 1
          /\ calls[k].ok =>
                \E j \in AppendedBy(calls[k].email_id) : timeline[j].complete
          /\ ~calls[k].ok =>
                \A j \in AppendedBy(calls[k].email_id) : ~timeline[j].complete
    /\ \A t \in Threads : Cardinality(AppendedBy(<<t, pc[t].n>>)) <= 1

\* A step appends at most one line and leaves the lines before it as they were.
AppendOnly ==
    /\ Len(timeline) <= Len(timeline')
    /\ Len(timeline') <= Len(timeline) + 1
    /\ \A k \in DOMAIN timeline : timeline'[k] = timeline[k]

\* C24. For every interleaving of concurrent log_activity calls: writes are
\* mutually exclusive under log_lock; a call appends exactly one complete
\* line, or on IOError, which is swallowed, no complete line; no step changes
\* or removes a line written before; the lock is always released and every
\* caller returns.
C24_ThreadSafeAppendOnlyLog ==
    /\ [](MutualExclusion /\ OneLinePerCall)
    /\ [][AppendOnly]_vars
    /\ (log_lock # None) ~> (log_lock = None)
    /\ \A t \in Threads : (pc[t].at = "acquire") ~> (pc[t].at = "idle")

\* Both threads have made all their calls, one of which met an IOError, and a
\* thread waited for the lock while the other held it: the log holds the lines
\* of the two threads interleaved.
C24_Witness ==
    /\ Len(calls) = MaxLogCalls * Cardinality(Threads)
    /\ log_lock = None
    /\ \E k \in DOMAIN calls : ~calls[k].ok
    /\ \E j \in DOMAIN timeline :
          /\ j + 2 <= Len(timeline)
          /\ timeline[j].entry.about[1] = "t1"
          /\ timeline[j + 1].entry.about[1] = "t2"
          /\ timeline[j + 2].entry.about[1] = "t1"

====
